---------------------------- MODULE Spec2Model ----------------------------
(***************************************************************************)
(* Model of the normalization and comparison core of the car-insurance     *)
(* quote repository (src/app_v2_utils.py).                                 *)
(*                                                                         *)
(* Python strings are modelled as sequences of one-character strings, so   *)
(* that lower(), strip(), replace(), split() and the `in` substring test   *)
(* are computed character by character.  Python / JSON values whose type   *)
(* the code inspects are tagged records (JNull, JNum, JStr, JList, JDict). *)
(* Amounts are exact decimals held as integers in units of 1/Scale.        *)
(***************************************************************************)
EXTENDS Integers, Sequences, FiniteSets, TLC

VARIABLES
    call,          \* the pending invocation of a pure function: [fn, ...arguments]
    ret,           \* its result: NoRet before the call, Ret(v) after it
    car_data_map,  \* scan_all_car_data's car_data_map: insertion-ordered sequence of [key, files]
    last_merge,    \* arguments and pre-state of the latest merge_insurer_data_into_car_map call
    proc           \* the running invocation of a procedure with steps: its position,
                   \* parameters, locals and the log of what it has done

pureVars == <<call, ret>>
mergeVars == <<car_data_map, last_merge>>
vars == <<call, ret, car_data_map, last_merge, proc>>

NoRet == [done |-> FALSE]

\* no procedure is running
NoProc == [at |-> "none"]
Ret(v) == [done |-> TRUE, v |-> v]
NoCall == [fn |-> "none"]

(***************************************************************************)
(* Bounds of the model.                                                    *)
(***************************************************************************)
MaxStatusTokens == 3
MaxRegTokens == 2
MaxAmountTokens == 3
MaxCategoryTokens == 3
MaxAddons == 2
MaxSections == 2
MaxPlans == 2
MaxEntries == 2
MaxRefs == 3
MaxSources == 2

(***************************************************************************)
(* Python / JSON values.                                                   *)
(***************************************************************************)
JNull == [t |-> "null"]
JNum(n) == [t |-> "num", n |-> n]
JStr(s) == [t |-> "str", s |-> s]
JList(l) == [t |-> "list", l |-> l]
JDict(d) == [t |-> "dict", d |-> d]
\* a Python float, held in units of 1/Scale
Float(v) == [t |-> "float", v |-> v]
\* a key the dict does not hold
Absent == [t |-> "absent"]

\* d.get(k, default) on a dict body (a function from key names to values)
Get(d, k, default) == IF k \in DOMAIN d /\ d[k] # Absent THEN d[k] ELSE default

\* bool(x)
Truthy(x) ==
    CASE x.t = "null" -> FALSE
      [] x.t = "absent" -> FALSE
      [] x.t = "num" -> x.n # 0
      [] x.t = "float" -> x.v # 0
      [] x.t = "str" -> x.s # <<>>
      [] x.t = "list" -> x.l # <<>>
      [] x.t = "dict" -> \E k \in DOMAIN x.d : x.d[k] # Absent

\* a or b
PyOr(a, b) == IF Truthy(a) THEN a ELSE b

(***************************************************************************)
(* Python str methods.                                                     *)
(***************************************************************************)
UpperLetters == <<"A","B","C","D","E","F","G","H","I","J","K","L","M",
                  "N","O","P","Q","R","S","T","U","V","W","X","Y","Z">>
LowerLetters == <<"a","b","c","d","e","f","g","h","i","j","k","l","m",
                  "n","o","p","q","r","s","t","u","v","w","x","y","z">>

LowerChar(c) ==
    IF \E i \in DOMAIN UpperLetters : UpperLetters[i] = c
    THEN LowerLetters[CHOOSE i \in DOMAIN UpperLetters : UpperLetters[i] = c]
    ELSE c

UpperChar(c) ==
    IF \E i \in DOMAIN LowerLetters : LowerLetters[i] = c
    THEN UpperLetters[CHOOSE i \in DOMAIN LowerLetters : LowerLetters[i] = c]
    ELSE c

IsLetter(c) ==
    \/ \E i \in DOMAIN UpperLetters : UpperLetters[i] = c
    \/ \E i \in DOMAIN LowerLetters : LowerLetters[i] = c

IsSpace(c) == c \in {" ", "\t", "\n"}

SetMin(S) == CHOOSE m \in S : \A n \in S : m <= n
SetMax(S) == CHOOSE m \in S : \A n \in S : m >= n

\* s.lower()
StrLower(s) == [i \in 1..Len(s) |-> LowerChar(s[i])]

\* s.strip()
StrStrip(s) ==
    LET keep == {i \in 1..Len(s) : ~IsSpace(s[i])}
    IN  IF keep = {} THEN <<>> ELSE SubSeq(s, SetMin(keep), SetMax(keep))

\* s.replace(a, b) for one-character a and b
StrReplaceChar(s, a, b) == [i \in 1..Len(s) |-> IF s[i] = a THEN b ELSE s[i]]

\* s.replace(a, "") for a one-character a
StrRemoveChar(s, a) == SelectSeq(s, LAMBDA c : c # a)

\* sub in s
StrContains(sub, s) ==
    \E i \in 0..(Len(s) - Len(sub)) : SubSeq(s, i + 1, i + Len(sub)) = sub

\* s.startswith(p), s.endswith(p)
StrStartsWith(s, p) == Len(p) <= Len(s) /\ SubSeq(s, 1, Len(p)) = p
StrEndsWith(s, p) == Len(p) <= Len(s) /\ SubSeq(s, Len(s) - Len(p) + 1, Len(s)) = p

\* last index of character c in s (0 when absent): s.rfind(c) + 1
LastIndexOf(s, c) ==
    LET at == {i \in 1..Len(s) : s[i] = c}
    IN  IF at = {} THEN 0 ELSE SetMax(at)

\* s.split(c)[-1] for a one-character separator c
SplitLast(s, c) == SubSeq(s, LastIndexOf(s, c) + 1, Len(s))

\* s.title(): a letter is uppercased after a non-letter, lowercased after a letter
StrTitle(s) ==
    [i \in 1..Len(s) |->
        IF ~IsLetter(s[i]) THEN s[i]
        ELSE IF i = 1 \/ ~IsLetter(s[i - 1]) THEN UpperChar(s[i]) ELSE LowerChar(s[i])]

\* every concatenation of at most n tokens of T
RECURSIVE Concats(_, _)
Concats(T, n) ==
    IF n = 0 THEN {<<>>}
    ELSE LET S == Concats(T, n - 1) IN S \cup {s \o t : s \in S, t \in T}

(***************************************************************************)
(* normalize_claim_status                                                  *)
(***************************************************************************)
s_claimed == <<"c","l","a","i","m","e","d">>
s_not == <<"n","o","t">>
s_not_claimed == <<"n","o","t","_","c","l","a","i","m","e","d">>
s_notclaimed == <<"n","o","t","c","l","a","i","m","e","d">>
s_not_hyphen_claimed == <<"n","o","t","-","c","l","a","i","m","e","d">>
s_unclaimed == <<"u","n","c","l","a","i","m","e","d">>
s_pending == <<"p","e","n","d","i","n","g">>
s_in_process == <<"i","n","_","p","r","o","c","e","s","s">>
s_in_hyphen_process == <<"i","n","-","p","r","o","c","e","s","s">>
s_process == <<"p","r","o","c","e","s","s">>

\* str(status).strip().lower().replace(" ", "_")
ClaimStatusValue(s) == StrReplaceChar(StrLower(StrStrip(s)), " ", "_")

\* the variant in which the substring "not" alone decides not_claimed
normalize_claim_status_any_not(status) ==
    IF status = JNull THEN <<>>
    ELSE LET value == ClaimStatusValue(status.s)
         IN  IF StrContains(s_not, value) THEN s_not_claimed
             ELSE IF value = s_claimed THEN s_claimed
             ELSE IF value = s_unclaimed THEN s_not_claimed
             ELSE IF value \in {s_pending, s_in_process, s_in_hyphen_process}
                  THEN s_pending
             ELSE value

\* the variant that forgets the "unclaimed" alias
normalize_claim_status_no_unclaimed(status) ==
    IF status = JNull THEN <<>>
    ELSE LET value == ClaimStatusValue(status.s)
         IN  IF value \in {s_claimed, s_not_claimed, s_notclaimed, s_not_hyphen_claimed}
             THEN (IF value # s_claimed /\ StrContains(s_not, value)
                   THEN s_not_claimed ELSE s_claimed)
             ELSE IF value \in {s_pending, s_in_process, s_in_hyphen_process}
                  THEN s_pending
             ELSE value

normalize_claim_status(status) ==
    IF status = JNull THEN <<>>
    ELSE LET value == ClaimStatusValue(status.s)
         IN  IF value \in {s_claimed, s_not_claimed, s_notclaimed, s_not_hyphen_claimed}
             THEN (IF value # s_claimed /\ StrContains(s_not, value)
                   THEN s_not_claimed ELSE s_claimed)
             ELSE IF value \in {s_unclaimed} THEN s_not_claimed
             ELSE IF value \in {s_pending, s_in_process, s_in_hyphen_process}
                  THEN s_pending
             ELSE value

(***************************************************************************)
(* infer_claim_status_from_filename                                        *)
(***************************************************************************)
\* Path(file_path).stem: the final path component without its last suffix
\* (for a path whose final component is a file name, not "." or "..")
PathStem(file_path) ==
    LET name == SplitLast(file_path, "/")
        dot == LastIndexOf(name, ".")
    IN  IF 1 < dot /\ dot < Len(name) THEN SubSeq(name, 1, dot - 1) ELSE name

\* the variant that takes the text after the first hyphen of the stem
infer_claim_status_first_hyphen(file_path) ==
    LET stem == PathStem(file_path)
        at == {i \in 1..Len(stem) : stem[i] = "-"}
    IN  IF at = {} THEN <<>>
        ELSE normalize_claim_status(JStr(SubSeq(stem, SetMin(at) + 1, Len(stem))))

infer_claim_status_from_filename(file_path) ==
    LET stem == PathStem(file_path)
    IN  IF ~StrContains(<<"-">>, stem) THEN <<>>
        ELSE normalize_claim_status(JStr(SplitLast(stem, "-")))

(***************************************************************************)
(* Inputs of the claim-status functions.                                   *)
(***************************************************************************)
StatusTokens ==
    { s_claimed, s_not, s_pending, s_process,
      <<"u","n">>, <<"i","n">>, <<"_">>, <<"-">>, <<" ">>,
      <<"N","O","T">>, <<"C","l","a","i","m","e","d">>, <<"\t">> }

StatusInputs == {JNull} \cup {JStr(s) : s \in Concats(StatusTokens, MaxStatusTokens)}

\* the status tokens the normalizer recognizes
StatusVocabulary ==
    { s_claimed, s_not_claimed, s_not_hyphen_claimed, s_notclaimed, s_unclaimed,
      s_pending, s_in_process, s_in_hyphen_process }

RegistrationTokens == { <<"M","H">>, <<"1","2">>, <<"-">>, <<"A","b">> }
Registrations == Concats(RegistrationTokens, MaxRegTokens)
Directories == { <<>>, <<"e","x","t","r","a","c","t","e","d","/","a","c","k","o","/">>,
                 <<"d","-","1","/">> }
s_json == <<".","j","s","o","n">>

\* "<dir><registration>-<status>.json", and "<dir><registration>.json" (token "none")
FilenameCalls ==
    { [fn |-> "infer_claim_status_from_filename",
       file_path |-> d \o r \o <<"-">> \o tok \o s_json,
       dir |-> d, registration |-> r, token |-> tok]
        : d \in Directories, r \in Registrations, tok \in StatusVocabulary }
    \cup
    { [fn |-> "infer_claim_status_from_filename",
       file_path |-> d \o r \o s_json,
       dir |-> d, registration |-> r, token |-> <<"n","o","n","e">>]
        : d \in Directories, r \in Registrations }

ClaimStatusCalls ==
    { [fn |-> "normalize_claim_status", status |-> s] : s \in StatusInputs }

(***************************************************************************)
(* The car map is idle in the specifications of the pure functions.        *)
(***************************************************************************)
MergeIdle == car_data_map = <<>> /\ last_merge = NoCall

InitClaimStatus ==
    /\ call \in ClaimStatusCalls \cup FilenameCalls
    /\ ret = NoRet
    /\ MergeIdle
    /\ proc = NoProc

CallNormalizeClaimStatus ==
    /\ call.fn = "normalize_claim_status"
    /\ ret = NoRet
    /\ ret' = Ret(normalize_claim_status(call.status))
    /\ UNCHANGED <<call, mergeVars, proc>>

CallInferClaimStatusFromFilename ==
    /\ call.fn = "infer_claim_status_from_filename"
    /\ ret = NoRet
    /\ ret' = Ret(infer_claim_status_from_filename(call.file_path))
    /\ UNCHANGED <<call, mergeVars, proc>>

NextClaimStatus == CallNormalizeClaimStatus \/ CallInferClaimStatusFromFilename

SpecClaimStatus == InitClaimStatus /\ [][NextClaimStatus]_vars


(***************************************************************************)
(* Claims about the claim-status normalizer (SpecClaimStatus).             *)
(***************************************************************************)
\* the value the claims speak of: lowercased, trimmed, spaces replaced by underscores
ClaimCanonical(s) == StrReplaceChar(StrStrip(StrLower(s)), " ", "_")

NormalizeDone == call.fn = "normalize_claim_status" /\ ret.done
InferDone == call.fn = "infer_claim_status_from_filename" /\ ret.done

\* C6: normalize_claim_status maps None to "", "claimed" to claimed, the four
\* not-claimed spellings (not_claimed, not-claimed, notclaimed, unclaimed) to
\* not_claimed, the three pending spellings to pending, and returns every other
\* value in its lowercased, trimmed, underscore-joined form.
C6_ClaimStatusTable ==
    NormalizeDone =>
        IF call.status = JNull THEN ret.v = <<>>
        ELSE LET v == ClaimCanonical(call.status.s)
             IN  ret.v = CASE v = s_claimed -> s_claimed
                           [] v \in {s_not_claimed, s_not_hyphen_claimed,
                                     s_notclaimed, s_unclaimed} -> s_not_claimed
                           [] v \in {s_pending, s_in_process, s_in_hyphen_process}
                                -> s_pending
                           [] OTHER -> v

\* "in process" (a space, no underscore) has been normalized to pending
C6_Witness ==
    /\ NormalizeDone
    /\ call.status = JStr(<<"i","n"," ","p","r","o","c","e","s","s">>)
    /\ ret.v = s_pending

\* C7 as stated: every input whose normalized form contains "not" gives not_claimed.
C7_AnyNotIsNotClaimed ==
    (NormalizeDone /\ call.status # JNull
        /\ StrContains(s_not, ClaimCanonical(call.status.s)))
    => ret.v = s_not_claimed

\* C7 amended: an input whose normalized form contains "not" gives not_claimed
\* exactly when that form is not_claimed, notclaimed or not-claimed; any other
\* value containing "not" is returned unchanged in its normalized form.
C7_NotOnlyInListedSpellings ==
    (NormalizeDone /\ call.status # JNull
        /\ StrContains(s_not, ClaimCanonical(call.status.s)))
    => LET v == ClaimCanonical(call.status.s)
       IN  ret.v = IF v \in {s_not_claimed, s_notclaimed, s_not_hyphen_claimed}
                   THEN s_not_claimed ELSE v

\* a value containing "not" outside the listed spellings has been passed through
C7_Witness ==
    /\ NormalizeDone
    /\ call.status = JStr(<<"N","O","T"," ","p","e","n","d","i","n","g">>)
    /\ ret.v = <<"n","o","t","_","p","e","n","d","i","n","g">>

s_none == <<"n","o","n","e">>

\* C8 as stated: for "R-S.json" with S in the normalizer's vocabulary the result
\* is normalize_claim_status(S); a stem without a hyphen gives "".
C8_FilenameGivesNormalizedToken ==
    InferDone =>
        /\ call.token # s_none => ret.v = normalize_claim_status(JStr(call.token))
        /\ (call.token = s_none /\ ~StrContains(<<"-">>, call.registration))
              => ret.v = <<>>

\* C8 amended: for "R-S.json" the result is normalize_claim_status of the part
\* of S after its last hyphen: normalize_claim_status(S) for the hyphen-free
\* tokens, "claimed" for not-claimed and "process" for in-process; a stem
\* without a hyphen gives "".
C8_FilenameGivesNormalizedLastPart ==
    InferDone =>
        /\ (call.token # s_none /\ ~StrContains(<<"-">>, call.token))
              => ret.v = normalize_claim_status(JStr(call.token))
        /\ call.token = s_not_hyphen_claimed => ret.v = s_claimed
        /\ call.token = s_in_hyphen_process => ret.v = s_process
        /\ (call.token = s_none /\ ~StrContains(<<"-">>, call.registration))
              => ret.v = <<>>

\* a file "<dir>MH-12-not-claimed.json" has been read as claimed
C8_Witness ==
    /\ InferDone
    /\ call.registration = <<"M","H","-">>
    /\ call.token = s_not_hyphen_claimed
    /\ ret.v = s_claimed


(***************************************************************************)
(* Amounts.  A Python float is held exactly, as an integer in units of     *)
(* 1/Scale; the input strings never show more than FracDigits decimals.    *)
(***************************************************************************)
RECURSIVE Pow10(_)
Pow10(n) == IF n = 0 THEN 1 ELSE 10 * Pow10(n - 1)

FracDigits == MaxAmountTokens - 1
Scale == Pow10(FracDigits)

\* the character U+20B9 (Indian rupee sign), one element of a string
Rupee == "INR"

Digits == <<"0","1","2","3","4","5","6","7","8","9">>
IsDigit(c) == \E i \in DOMAIN Digits : Digits[i] = c
DigitValue(c) == (CHOOSE i \in DOMAIN Digits : Digits[i] = c) - 1

\* the integer a string of decimal digits denotes ("" denotes 0)
RECURSIVE DigitsValue(_)
DigitsValue(s) ==
    IF s = <<>> THEN 0
    ELSE 10 * DigitsValue(SubSeq(s, 1, Len(s) - 1)) + DigitValue(s[Len(s)])

\* abs(n)
Abs(n) == IF n < 0 THEN -n ELSE n

Raised(exc) == [done |-> TRUE, raised |-> exc]
Returned == ret.done /\ "v" \in DOMAIN ret

\* re.findall(pattern, s) for a pattern "[class]+": the first maximal run of
\* characters of the class, as <<run>>, or <<>> when there is none
RunFrom(s, first, class) ==
    <<SubSeq(s, first, SetMax({j \in first..Len(s) : \A k \in first..j : s[k] \in class}))>>

FirstRun(s, class) ==
    IF \A i \in DOMAIN s : s[i] \notin class THEN <<>>
    ELSE RunFrom(s, SetMin({i \in DOMAIN s : s[i] \in class}), class)

\* float(number_str) for a string of digits and points: [ok, v], ok = FALSE
\* standing for ValueError.  The value of whole "." frac is exact in units of
\* 1/Scale: no input shows more than FracDigits decimals.
FloatOfShown(whole, shown) ==
    [ok |-> TRUE,
     v |-> DigitsValue(whole) * Scale + DigitsValue(shown) * Pow10(FracDigits - Len(shown))]

FloatOfParts(whole, frac) ==
    FloatOfShown(whole, SubSeq(frac, 1, IF Len(frac) < FracDigits THEN Len(frac)
                                                                  ELSE FracDigits))

FloatAt(number_str, point) ==
    FloatOfParts(SubSeq(number_str, 1, point - 1),
                 SubSeq(number_str, point + 1, Len(number_str)))

PointsOf(number_str) == {i \in 1..Len(number_str) : number_str[i] = "."}

ParseFloat(number_str) ==
    IF Cardinality(PointsOf(number_str)) > 1 \/ \A i \in DOMAIN number_str : ~IsDigit(number_str[i])
    THEN [ok |-> FALSE, v |-> 0]
    ELSE FloatAt(number_str, IF PointsOf(number_str) = {} THEN Len(number_str) + 1
                             ELSE SetMin(PointsOf(number_str)))

AmountChars == {Digits[i] : i \in DOMAIN Digits} \cup {",", "."}
PremiumChars == {Digits[i] : i \in DOMAIN Digits} \cup {","}

\* sign * float(number_str), 0.0 on ValueError
SignedParsed(sign, parsed) == IF parsed.ok THEN sign * parsed.v ELSE 0

\* numbers[0] without its commas, parsed; 0.0 when re.findall found nothing
SignedRun(sign, numbers) ==
    IF numbers = <<>> THEN 0
    ELSE SignedParsed(sign, ParseFloat(StrRemoveChar(numbers[1], ",")))

\* re.findall(r"[\d,\.]+", working), the first match parsed
SignedNumber(sign, working) == SignedRun(sign, FirstRun(working, AmountChars))

\* a leading "-" sets the sign and is dropped, a leading "+" is dropped
SignedWorking(sign, working) ==
    SignedNumber(IF StrStartsWith(working, <<"-">>) THEN -1 ELSE sign,
                 IF StrStartsWith(working, <<"-">>) \/ StrStartsWith(working, <<"+">>)
                 THEN Tail(working) ELSE working)

\* the variant that takes the sign only from a leading minus, not from parentheses
SignedText_no_parens(value_str) ==
    IF value_str = <<>> THEN 0 ELSE SignedWorking(1, StrStrip(value_str))

\* the stripped text: "(...)" sets the sign and is unwrapped
SignedText(value_str) ==
    IF value_str = <<>> THEN 0
    ELSE IF StrStartsWith(value_str, <<"(">>) /\ StrEndsWith(value_str, <<")">>)
    THEN SignedWorking(-1, StrStrip(SubSeq(value_str, 2, Len(value_str) - 1)))
    ELSE SignedWorking(1, StrStrip(value_str))

extract_signed_amount(value) ==
    IF value.t = "num" THEN value.n * Scale
    ELSE IF value = JNull THEN 0
    ELSE SignedText(StrStrip(value.s))

\* Ret(float(number_str)), Ret(0.0) on ValueError
PremiumOfRun(numbers) ==
    IF numbers = <<>> THEN Ret(0)
    ELSE Ret(SignedParsed(1, ParseFloat(StrRemoveChar(numbers[1], ","))))

\* extract_premium_value: Ret(v), or Raised for a non-zero number, which has
\* no replace method
extract_premium_value(premium_str) ==
    IF premium_str = JNull THEN Ret(0)
    ELSE IF premium_str.t = "num"
         THEN (IF premium_str.n = 0 THEN Ret(0) ELSE Raised("AttributeError"))
    ELSE IF premium_str.s = <<>> THEN Ret(0)
    ELSE PremiumOfRun(FirstRun(StrRemoveChar(StrRemoveChar(premium_str.s, Rupee), ","),
                               PremiumChars))

(***************************************************************************)
(* Inputs of the amount parsers: display strings of a known shape          *)
(* (sign, currency symbol, grouped digits, decimals), free concatenations  *)
(* of amount tokens, numbers and None.                                     *)
(***************************************************************************)
\* digit groups as an insurer page shows them, to be joined by ","
ShownGroups ==
    { << <<"0">> >>, << <<"5">> >>, << <<"6","5","2">> >>,
      << <<"1","2">>, <<"4","5","4">> >>,
      << <<"1">>, <<"0","0">>, <<"0","0","0">> >> }
ShownDecimals == { <<>>, <<".","5">>, <<".","2","5">> }
ShownSigns == { <<>>, <<"-">>, <<"+">> }
ShownCurrency == { <<>>, <<Rupee>>, <<Rupee, " ">>, <<"$">> }
ShownPadding == { <<>>, <<" ">> }
ShownSuffix == { <<>>, <<"/","-">> }

RECURSIVE JoinWith(_, _)
JoinWith(groups, sep) ==
    IF Len(groups) = 0 THEN <<>>
    ELSE IF Len(groups) = 1 THEN groups[1]
    ELSE groups[1] \o sep \o JoinWith(Tail(groups), sep)

ShapeText(shape) ==
    LET inner == shape.sign \o shape.pad \o shape.currency
                 \o JoinWith(shape.groups, <<",">>) \o shape.decimals \o shape.suffix
    IN  shape.pad \o (IF shape.parens THEN <<"(">> \o inner \o <<")">> ELSE inner)
        \o shape.pad

AmountShapes ==
    [parens : BOOLEAN, sign : ShownSigns, pad : ShownPadding, currency : ShownCurrency,
     groups : ShownGroups, decimals : ShownDecimals, suffix : ShownSuffix]

AmountTokens ==
    { <<"R","s">>, <<".">>, <<",">>, <<" ">>, <<"-">>, <<"+">>, <<"(">>, <<")">>,
      <<"5">>, <<"0">>, <<"1">>, <<Rupee>>, <<"R","s",".">> }
FreeAmountStrings == Concats(AmountTokens, MaxAmountTokens)
AmountNumbers == {0, 5, 15000, -652}

SignedAmountCalls ==
    { [fn |-> "extract_signed_amount", value |-> JStr(ShapeText(sh)),
       kind |-> "shaped", shape |-> sh] : sh \in AmountShapes }
    \cup { [fn |-> "extract_signed_amount", value |-> JStr(s), kind |-> "free"]
             : s \in FreeAmountStrings }
    \cup { [fn |-> "extract_signed_amount", value |-> JNum(n), kind |-> "free"]
             : n \in AmountNumbers }
    \cup { [fn |-> "extract_signed_amount", value |-> JNull, kind |-> "free"] }

PremiumValueCalls ==
    { [fn |-> "extract_premium_value", value |-> JStr(s), kind |-> "free"]
        : s \in FreeAmountStrings }
    \cup { [fn |-> "extract_premium_value", value |-> JNum(n), kind |-> "free"]
             : n \in AmountNumbers }
    \cup { [fn |-> "extract_premium_value", value |-> JNull, kind |-> "free"] }

InitAmount ==
    /\ call \in SignedAmountCalls \cup PremiumValueCalls
    /\ ret = NoRet
    /\ MergeIdle
    /\ proc = NoProc

CallExtractSignedAmount ==
    /\ call.fn = "extract_signed_amount"
    /\ ret = NoRet
    /\ ret' = Ret(extract_signed_amount(call.value))
    /\ UNCHANGED <<call, mergeVars, proc>>

CallExtractPremiumValue ==
    /\ call.fn = "extract_premium_value"
    /\ ret = NoRet
    /\ ret' = extract_premium_value(call.value)
    /\ UNCHANGED <<call, mergeVars, proc>>

NextAmount == CallExtractSignedAmount \/ CallExtractPremiumValue

SpecAmount == InitAmount /\ [][NextAmount]_vars


(***************************************************************************)
(* Claims about the amount parsers (SpecAmount).                           *)
(***************************************************************************)
SignedDone == call.fn = "extract_signed_amount" /\ ret.done

\* the magnitude a shaped display string shows, in units of 1/Scale
ShapeMagnitude(shape) ==
    LET decimals == IF shape.decimals = <<>> THEN <<>> ELSE Tail(shape.decimals)
    IN  DigitsValue(JoinWith(shape.groups, <<>>)) * Scale
        + DigitsValue(decimals) * Pow10(FracDigits - Len(decimals))

\* C9: extract_signed_amount gives 0 for None and for "", a number unchanged,
\* and for a display string the number it shows, negative when the string has a
\* leading minus or is wrapped in parentheses and positive otherwise, whatever
\* currency symbol, thousands separators and padding it carries.
C9_SignedAmountOfDisplayString ==
    SignedDone =>
        /\ call.value = JNull => ret.v = 0
        /\ call.value = JStr(<<>>) => ret.v = 0
        /\ call.value.t = "num" => ret.v = call.value.n * Scale
        /\ call.kind = "shaped" =>
              ret.v = (IF call.shape.parens \/ call.shape.sign = <<"-">> THEN -1 ELSE 1)
                      * ShapeMagnitude(call.shape)

\* "(<rupee>12,454.25)" has been parsed as -12454.25
C9_Witness ==
    /\ SignedDone
    /\ call.kind = "shaped"
    /\ call.shape.parens /\ call.shape.sign = <<>> /\ call.shape.currency = <<Rupee>>
    /\ call.shape.groups = << <<"1","2">>, <<"4","5","4">> >>
    /\ call.shape.decimals = <<".","2","5">>
    /\ ret.v = -(12454 * Scale + 25 * Pow10(FracDigits - 2))

\* the first number a display string shows: the digits, thousands separators
\* and at most one decimal point that follow its first digit
FirstNumberRun(s) ==
    LET first == SetMin({i \in 1..Len(s) : IsDigit(s[i])})
    IN  FirstRun(SubSeq(s, first, Len(s)), AmountChars)[1]

FirstNumberIsPlain(s) ==
    LET first == SetMin({i \in 1..Len(s) : IsDigit(s[i])})
    IN  /\ first > 1 => s[first - 1] # "."
        /\ Cardinality({i \in 1..Len(FirstNumberRun(s)) : FirstNumberRun(s)[i] = "."}) <= 1

FirstNumberValue(s) ==
    LET run == StrRemoveChar(FirstNumberRun(s), ",")
        points == {i \in 1..Len(run) : run[i] = "."}
        point == IF points = {} THEN Len(run) + 1 ELSE SetMin(points)
        decimals == SubSeq(run, point + 1, Len(run))
    IN  DigitsValue(SubSeq(run, 1, point - 1)) * Scale
        + DigitsValue(decimals) * Pow10(FracDigits - Len(decimals))

\* C10: for a display string that contains a digit, both amount parsers return
\* the value of the first number of the string, whatever text or punctuation
\* stands before its first digit.
C10_FirstNumberWhateverPrecedes ==
    (/\ call.fn \in {"extract_signed_amount", "extract_premium_value"}
     /\ Returned
     /\ call.kind = "free" /\ call.value.t = "str"
     /\ \E i \in 1..Len(call.value.s) : IsDigit(call.value.s[i])
     /\ FirstNumberIsPlain(call.value.s))
    => Abs(ret.v) = FirstNumberValue(call.value.s)

AmountParsers == {"extract_signed_amount", "extract_premium_value"}

\* C11: both amount parsers return a value, and never raise, for None, for a
\* number and for every string; a string that shows no number gives the zero
\* value.
C11_AmountParsersNeverRaise ==
    (call.fn \in AmountParsers /\ ret.done) =>
        /\ Returned
        /\ (call.value.t = "str" /\ \A i \in 1..Len(call.value.s) : ~IsDigit(call.value.s[i]))
               => ret.v = 0


(***************************************************************************)
(* normalize_plan_category                                                 *)
(***************************************************************************)
s_zd == <<"z","d">>
s_zd_od == <<"z","d","_","o","d">>
s_zero_dep == <<"z","e","r","o"," ","d","e","p">>
s_zero_dep_u == <<"z","e","r","o","_","d","e","p">>
s_zero_depreciation == <<"z","e","r","o"," ","d","e","p","r","e","c","i","a","t","i","o","n">>
s_third == <<"t","h","i","r","d">>
s_tp == <<"t","p">>
s_third_hyphen_party == <<"t","h","i","r","d","-","p","a","r","t","y">>
s_third_party == <<"t","h","i","r","d"," ","p","a","r","t","y">>
s_own == <<"o","w","n">>
s_damage == <<"d","a","m","a","g","e">>
s_od == <<"o","d">>
s_od_plan == <<"o","d","_","p","l","a","n">>
s_bumper == <<"b","u","m","p","e","r">>
s_comp == <<"c","o","m","p">>
s_comprehensive == <<"c","o","m","p","r","e","h","e","n","s","i","v","e">>

\* the variant that tests "comp" before "third"
normalize_plan_category_comp_first(category) ==
    IF category = JNull \/ category.s = <<>> THEN <<>>
    ELSE LET value == StrLower(StrStrip(category.s))
         IN  IF value \in {s_zd, s_zd_od, s_zero_dep, s_zero_dep_u, s_zero_depreciation}
             THEN s_comp
             ELSE IF StrContains(s_comp, value) \/ StrContains(s_comprehensive, value)
             THEN s_comp
             ELSE IF StrContains(s_third, value)
                     \/ value \in {s_tp, s_third_hyphen_party, s_third_party}
             THEN s_tp
             ELSE IF StrContains(s_own, value) /\ StrContains(s_damage, value) THEN s_od
             ELSE IF value \in {s_od, s_od_plan} THEN s_od
             ELSE IF StrContains(s_bumper, value) THEN s_comp
             ELSE value

normalize_plan_category(category) ==
    IF category = JNull \/ category.s = <<>> THEN <<>>
    ELSE LET value == StrLower(StrStrip(category.s))
         IN  IF value \in {s_zd, s_zd_od, s_zero_dep, s_zero_dep_u, s_zero_depreciation}
             THEN s_comp
             ELSE IF StrContains(s_third, value)
                     \/ value \in {s_tp, s_third_hyphen_party, s_third_party}
             THEN s_tp
             ELSE IF StrContains(s_own, value) /\ StrContains(s_damage, value) THEN s_od
             ELSE IF value \in {s_od, s_od_plan} THEN s_od
             ELSE IF StrContains(s_bumper, value) THEN s_comp
             ELSE IF StrContains(s_comp, value) \/ StrContains(s_comprehensive, value)
             THEN s_comp
             ELSE value

CategoryTokens ==
    { <<"z","d">>,
      <<"Z","e","r","o">>,
      <<"d","e","p">>,
      <<"d","e","p","r","e","c","i","a","t","i","o","n">>,
      <<" ">>,
      <<"_">>,
      <<"T","h","i","r","d">>,
      <<"t","p">>,
      <<"O","w","n">>,
      <<"d","a","m","a","g","e">>,
      <<"O","D">>,
      <<"B","u","m","p","e","r">>,
      <<"c","o","m","p">>,
      <<"x","y","z">>,
      <<"p","l","a","n">> }

CategoryStrings == Concats(CategoryTokens, MaxCategoryTokens)

CategoryCalls ==
    { [fn |-> "normalize_plan_category", category |-> JStr(s)] : s \in CategoryStrings }
    \cup { [fn |-> "normalize_plan_category", category |-> JNull] }

InitCategory ==
    /\ call \in CategoryCalls
    /\ ret = NoRet
    /\ MergeIdle
    /\ proc = NoProc

CallNormalizePlanCategory ==
    /\ call.fn = "normalize_plan_category"
    /\ ret = NoRet
    /\ ret' = Ret(normalize_plan_category(call.category))
    /\ UNCHANGED <<call, mergeVars, proc>>

NextCategory == CallNormalizePlanCategory

SpecCategory == InitCategory /\ [][NextCategory]_vars

(***************************************************************************)
(* Claims about the category normalizer (SpecCategory).                    *)
(***************************************************************************)
CategoryDone == call.fn = "normalize_plan_category" /\ ret.done /\ call.category # JNull

\* the rules of C4, on the trimmed lowercased input
CategoryRule1(v) == v \in {s_zd, s_zd_od, s_zero_dep, s_zero_dep_u, s_zero_depreciation}
CategoryRule2(v) == StrContains(s_third, v) \/ v \in {s_tp, s_third_hyphen_party, s_third_party}
CategoryRule3(v) ==
    (StrContains(s_own, v) /\ StrContains(s_damage, v)) \/ v \in {s_od, s_od_plan}
CategoryRule4(v) == StrContains(s_bumper, v)
CategoryRule5(v) == StrContains(s_comp, v)

\* C4: normalize_plan_category trims and lowercases its input and lets the first
\* matching rule decide: zero-dep alias -> comp, "third"/third-party alias -> tp,
\* "own" and "damage"/OD alias -> od, "bumper" -> comp, "comp" -> comp, otherwise
\* the trimmed lowercased input.
C4_CategoryRulePrecedence ==
    CategoryDone =>
        LET v == StrStrip(StrLower(call.category.s))
        IN  ret.v = CASE CategoryRule1(v) -> s_comp
                      [] ~CategoryRule1(v) /\ CategoryRule2(v) -> s_tp
                      [] ~CategoryRule1(v) /\ ~CategoryRule2(v) /\ CategoryRule3(v) -> s_od
                      [] ~CategoryRule1(v) /\ ~CategoryRule2(v) /\ ~CategoryRule3(v)
                            /\ CategoryRule4(v) -> s_comp
                      [] ~CategoryRule1(v) /\ ~CategoryRule2(v) /\ ~CategoryRule3(v)
                            /\ ~CategoryRule4(v) /\ CategoryRule5(v) -> s_comp
                      [] OTHER -> v

\* "Bumper Third comp" matches rules (2), (4) and (5) and has been given tp
C4_Witness ==
    /\ CategoryDone
    /\ call.category.s = <<"B","u","m","p","e","r","T","h","i","r","d","c","o","m","p">>
    /\ ret.v = s_tp


(***************************************************************************)
(* Pricing breakdowns.                                                     *)
(***************************************************************************)
init_pricing_template ==
    [base_premium |-> JNull, own_damage_premium |-> JNull, third_party_premium |-> JNull,
     addons_total |-> Float(0), addons_breakdown |-> <<>>,
     discounts_total |-> Float(0), discount_breakdown |-> <<>>,
     gst_amount |-> JNull, gst_rate |-> JStr(<<>>),
     net_premium |-> JNull, total_premium |-> JNull, sections |-> <<>>]

\* the variant that leaves the template's 0.0 totals in place
finalize_pricing_breakdown_keep_zero(pricing) == pricing

finalize_pricing_breakdown(pricing) ==
    [pricing EXCEPT
        !.addons_total = IF pricing.addons_breakdown = <<>> THEN JNull ELSE @,
        !.discounts_total = IF pricing.discount_breakdown = <<>> THEN JNull ELSE @]

RECURSIVE SumPrices(_)
SumPrices(breakdown) ==
    IF breakdown = <<>> THEN 0 ELSE Head(breakdown).price + SumPrices(Tail(breakdown))

\* x if x else None, for a float x
FloatOrNone(x) == IF x # 0 THEN Float(x) ELSE JNull
\* total if breakdown else None
TotalOrNone(breakdown) == IF breakdown # <<>> THEN Float(SumPrices(breakdown)) ELSE JNull

(***************************************************************************)
(* build_acko_pricing                                                      *)
(***************************************************************************)
\* net_premium or price or gross_premium (default 0), parsed
AckoAddonAmount(addon) ==
    extract_signed_amount(
        PyOr(PyOr(Get(addon, "net_premium", JNull), Get(addon, "price", JNull)),
             Get(addon, "gross_premium", JNum(0))))

AckoAddonName(addon) ==
    PyOr(PyOr(Get(addon, "display_name", JNull), Get(addon, "name", JNull)),
         JStr(<<"A","d","d","o","n">>))

AckoAddonsBreakdown(addons) ==
    LET priced == SelectSeq(addons, LAMBDA a : a.t = "dict" /\ AckoAddonAmount(a.d) # 0)
    IN  [i \in 1..Len(priced) |->
            [name |-> AckoAddonName(priced[i].d), price |-> AckoAddonAmount(priced[i].d)]]

build_acko_pricing(plan) ==
    LET total_premium == extract_signed_amount(Get(plan.d, "premium_value", JNum(0)))
        addons_breakdown == AckoAddonsBreakdown(Get(plan.d, "addons", JList(<<>>)).l)
        addons_total == SumPrices(addons_breakdown)
    IN  finalize_pricing_breakdown(
            [init_pricing_template EXCEPT
                !.addons_breakdown = addons_breakdown,
                !.addons_total = TotalOrNone(addons_breakdown),
                !.base_premium = Float(IF total_premium - addons_total > 0
                                       THEN total_premium - addons_total ELSE 0),
                !.net_premium = Float(total_premium),
                !.total_premium = Float(total_premium),
                !.sections = <<>>])

(***************************************************************************)
(* build_icici_pricing                                                     *)
(***************************************************************************)
\* the {name, price} entries of the dict items whose parsed price is not 0
\* the variant without the `if amount == 0: continue` test
IciciBreakdown_keep_zero(items, default_name) ==
    LET priced == SelectSeq(items, LAMBDA c : c.t = "dict")
    IN  [i \in 1..Len(priced) |->
            [name |-> Get(priced[i].d, "name", JStr(default_name)),
             price |-> extract_signed_amount(Get(priced[i].d, "price", JNull))]]

IciciBreakdown(items, default_name) ==
    LET priced == SelectSeq(items, LAMBDA c : c.t = "dict"
                              /\ extract_signed_amount(Get(c.d, "price", JNull)) # 0)
    IN  [i \in 1..Len(priced) |->
            [name |-> Get(priced[i].d, "name", JStr(default_name)),
             price |-> extract_signed_amount(Get(priced[i].d, "price", JNull))]]

build_icici_pricing(premium_summary) ==
    IF premium_summary.t # "dict" THEN finalize_pricing_breakdown(init_pricing_template)
    ELSE LET ps == premium_summary.d
             addons_breakdown ==
                 IciciBreakdown(Get(ps, "additional_covers_breakdown", JList(<<>>)).l,
                                <<"A","d","d","i","t","i","o","n","a","l"," ","C","o","v","e","r">>)
             discounts_breakdown ==
                 IciciBreakdown(Get(ps, "discount_breakdown", JList(<<>>)).l, <<"D","i","s","c","o","u","n","t">>)
             total == extract_signed_amount(Get(ps, "total_premium", JNull))
         IN  finalize_pricing_breakdown(
                 [init_pricing_template EXCEPT
                     !.base_premium =
                         Float(extract_signed_amount(Get(ps, "base_premium", JNull))),
                     !.addons_breakdown = addons_breakdown,
                     !.addons_total = TotalOrNone(addons_breakdown),
                     !.discount_breakdown = discounts_breakdown,
                     !.discounts_total = TotalOrNone(discounts_breakdown),
                     !.gst_rate = Get(ps, "gst", JStr(<<>>)),
                     !.net_premium = FloatOrNone(total),
                     !.total_premium = FloatOrNone(total),
                     !.sections = <<>>])

(***************************************************************************)
(* build_cholams_pricing.  The premium table is an insertion-ordered dict: *)
(* a sequence of [section, entries], entries a JSON list.                  *)
(***************************************************************************)
RECURSIVE CholamsLines(_)
\* the (section_name, entry) pairs the two loops visit, dict entries only
CholamsLines(plan_premium) ==
    IF plan_premium = <<>> THEN <<>>
    ELSE LET head == Head(plan_premium)
             dicts == SelectSeq(head.entries.l, LAMBDA e : e.t = "dict")
         IN  [i \in 1..Len(dicts) |-> [section |-> head.section, entry |-> dicts[i].d]]
             \o CholamsLines(Tail(plan_premium))

CholamsLabel(entry) == StrStrip(Get(entry, "label", JStr(<<>>)).s)
CholamsAmount(entry) == extract_signed_amount(Get(entry, "amount", JNum(0)))

\* the variant that keeps the sign of the amount
CholamsDiscountValue_as_given(amount) == amount

\* discount_value = -abs(amount)
CholamsDiscountValue(amount) == -Abs(amount)

\* one pass of the loop body on the pricing dict
CholamsRoute(pricing, line) ==
    LET label == CholamsLabel(line.entry)
        amount == CholamsAmount(line.entry)
        normalized_label == StrLower(label)
        withSection ==
            [pricing EXCEPT !.sections =
                Append(@, [section |-> JStr(line.section), label |-> JStr(label),
                           amount |-> amount])]
    IN  IF StrContains(<<"o","w","n"," ","d","a","m","a","g","e"," ","p","r","e","m","i","u","m"," ","a","f","t","e","r"," ","d","i","s","c","o","u","n","t">>, normalized_label)
        THEN [withSection EXCEPT !.own_damage_premium = Float(amount)]
        ELSE IF normalized_label = <<"o","w","n"," ","d","a","m","a","g","e">>
        THEN [withSection EXCEPT !.base_premium = Float(amount)]
        ELSE IF StrContains(<<"t","h","i","r","d"," ","p","a","r","t","y">>, normalized_label)
        THEN [withSection EXCEPT !.third_party_premium = Float(amount)]
        ELSE IF StrStartsWith(normalized_label, <<"n","e","t"," ","p","r","e","m","i","u","m">>)
        THEN [withSection EXCEPT !.net_premium = Float(amount)]
        ELSE IF StrStartsWith(normalized_label, <<"t","o","t","a","l"," ","p","r","e","m","i","u","m">>)
        THEN [withSection EXCEPT !.total_premium = Float(amount)]
        ELSE IF StrContains(<<"g","s","t">>, normalized_label)
        THEN [withSection EXCEPT !.gst_amount = Float(amount)]
        ELSE IF StrStartsWith(line.section, <<"(","C",")"," ","A","d","d","-","O","n">>)
                /\ ~StrContains(<<"o","w","n"," ","d","a","m","a","g","e"," ","p","r","e","m","i","u","m">>, normalized_label)
        THEN [withSection EXCEPT
                 !.addons_breakdown = Append(@, [name |-> JStr(label), price |-> amount])]
        ELSE IF StrStartsWith(line.section, <<"(","B",")">>)
        THEN [withSection EXCEPT
                 !.discount_breakdown =
                     Append(@, [name |-> JStr(label), price |-> CholamsDiscountValue(amount)])]
        ELSE withSection

RECURSIVE CholamsFold(_, _)
CholamsFold(pricing, lines) ==
    IF lines = <<>> THEN pricing
    ELSE CholamsFold(CholamsRoute(pricing, Head(lines)), Tail(lines))

build_cholams_pricing(plan_premium) ==
    IF plan_premium.t # "dict" THEN finalize_pricing_breakdown(init_pricing_template)
    ELSE LET routed == CholamsFold(init_pricing_template, CholamsLines(plan_premium.d))
         IN  finalize_pricing_breakdown(
                 [routed EXCEPT
                     !.addons_total = TotalOrNone(routed.addons_breakdown),
                     !.discounts_total = TotalOrNone(routed.discount_breakdown)])

(***************************************************************************)
(* build_royal_sundaram_pricing.  add_ons is an insertion-ordered dict: a  *)
(* sequence of [name, value].                                              *)
(***************************************************************************)
EmptyDict == JDict(<<>>)

\* the {name, price} entries of the add-ons whose amount has the sign: the
\* positive ones are addons, the negative ones discounts, 0 is skipped
RoyalSundaramEntries(add_ons, sign) ==
    LET kept == SelectSeq(add_ons, LAMBDA a : sign * extract_signed_amount(a.value) > 0)
    IN  [i \in 1..Len(kept) |->
            [name |-> JStr(StrTitle(StrReplaceChar(kept[i].name, "_", " "))),
             price |-> extract_signed_amount(kept[i].value)]]

\* the variant that takes a zero amount for a present one
RoyalSundaramOdTotal_zero_present(net_premium, liability_base) ==
    Float(net_premium - liability_base)

\* net_premium - liability_base if net_premium and liability_base else None
RoyalSundaramOdTotal(net_premium, liability_base) ==
    IF net_premium # 0 /\ liability_base # 0
    THEN Float(net_premium - liability_base) ELSE JNull

build_royal_sundaram_pricing(plan) ==
    IF plan.t # "dict" THEN finalize_pricing_breakdown(init_pricing_template)
    ELSE LET premium_breakup == PyOr(Get(plan.d, "premium_breakup", EmptyDict), EmptyDict).d
             own_damage == PyOr(Get(premium_breakup, "own_damage", EmptyDict), EmptyDict).d
             liability == PyOr(Get(premium_breakup, "liability", EmptyDict), EmptyDict).d
             base_od == extract_signed_amount(Get(own_damage, "base_premium", JNull))
             liability_base == extract_signed_amount(Get(liability, "base_premium", JNull))
             net_premium == extract_signed_amount(Get(premium_breakup, "net_premium", JNull))
             gst_amount ==
                 extract_signed_amount(
                     PyOr(Get(premium_breakup, "gst_18_percent", JNull),
                          Get(premium_breakup, "gst_amount", JNull)))
             total_premium ==
                 extract_signed_amount(Get(premium_breakup, "total_premium", JNull))
             add_ons == PyOr(Get(own_damage, "add_ons", JNull), EmptyDict).d
             addons_breakdown == RoyalSundaramEntries(add_ons, 1)
             discount_breakdown == RoyalSundaramEntries(add_ons, -1)
             od_total == RoyalSundaramOdTotal(net_premium, liability_base)
         IN  finalize_pricing_breakdown(
                 [init_pricing_template EXCEPT
                     !.addons_breakdown = addons_breakdown,
                     !.discount_breakdown = discount_breakdown,
                     !.base_premium = FloatOrNone(base_od),
                     !.own_damage_premium = IF Truthy(od_total) THEN od_total ELSE JNull,
                     !.third_party_premium = FloatOrNone(liability_base),
                     !.addons_total = TotalOrNone(addons_breakdown),
                     !.discounts_total = TotalOrNone(discount_breakdown),
                     !.gst_amount = FloatOrNone(gst_amount),
                     !.gst_rate = IF gst_amount # 0 THEN JStr(<<"1","8","%">>) ELSE JStr(<<>>),
                     !.net_premium = FloatOrNone(net_premium),
                     !.total_premium = FloatOrNone(total_premium),
                     !.sections = <<>>])

(***************************************************************************)
(* build_godigit_pricing                                                   *)
(***************************************************************************)
build_godigit_pricing(premium_breakup) ==
    IF premium_breakup.t # "dict" THEN finalize_pricing_breakdown(init_pricing_template)
    ELSE LET pb == premium_breakup.d
             od == extract_signed_amount(Get(pb, "own_damage", JNull))
             tp == extract_signed_amount(Get(pb, "third_party", JNull))
             addons_amount == extract_signed_amount(Get(pb, "addons", JNull))
             ncb_discount == extract_signed_amount(Get(pb, "ncb_discount", JNull))
             digit_discount == extract_signed_amount(Get(pb, "digit_discount", JNull))
             net_premium == extract_signed_amount(Get(pb, "net_premium", JNull))
             gst_amount == extract_signed_amount(Get(pb, "gst", JNull))
             final_premium == extract_signed_amount(Get(pb, "final_premium", JNull))
             discount_breakdown ==
                 (IF ncb_discount # 0
                  THEN <<[name |-> JStr(<<"N","C","B"," ","D","i","s","c","o","u","n","t">>), price |-> ncb_discount]>> ELSE <<>>)
                 \o (IF digit_discount # 0
                     THEN <<[name |-> JStr(<<"D","i","g","i","t"," ","D","i","s","c","o","u","n","t">>), price |-> digit_discount]>>
                     ELSE <<>>)
         IN  finalize_pricing_breakdown(
                 [init_pricing_template EXCEPT
                     !.own_damage_premium = FloatOrNone(od),
                     !.third_party_premium = FloatOrNone(tp),
                     !.base_premium = IF od # 0 /\ tp # 0 THEN Float(od + tp) ELSE JNull,
                     !.addons_breakdown =
                         IF addons_amount # 0
                         THEN <<[name |-> JStr(<<"A","d","d","-","o","n","s">>), price |-> addons_amount]>> ELSE <<>>,
                     !.addons_total = IF addons_amount # 0 THEN Float(addons_amount) ELSE @,
                     !.discount_breakdown = discount_breakdown,
                     !.discounts_total = TotalOrNone(discount_breakdown),
                     !.gst_amount = FloatOrNone(gst_amount),
                     !.net_premium = FloatOrNone(net_premium),
                     !.total_premium = FloatOrNone(final_premium),
                     !.sections = <<>>])


(***************************************************************************)
(* Inputs of the pricing builders: the JSON blocks the scrapers write.     *)
(***************************************************************************)
SeqsUpTo(S, n) == UNION {[1..k -> S] : k \in 0..n}

\* the insertion-ordered dicts of at most n entries of S, keys distinct
DictsUpTo(S, n, key) ==
    {q \in SeqsUpTo(S, n) : \A i, j \in DOMAIN q : i # j => q[i][key] # q[j][key]}

\* a list of at most n items of S, or no such key
ListsOrAbsent(S, n) == {Absent} \cup {JList(l) : l \in SeqsUpTo(S, n)}

NonDicts == {JNull, JStr(<<"n","/","a">>), JList(<<>>)}

AckoAddonPool ==
    { JDict([display_name |-> JStr(<<"R","S","A">>), name |-> Absent, net_premium |-> JNum(500), price |-> Absent, gross_premium |-> Absent]),
      JDict([display_name |-> Absent, name |-> JStr(<<"Z","e","r","o">>), net_premium |-> Absent, price |-> JNum(300), gross_premium |-> Absent]),
      JDict([display_name |-> Absent, name |-> Absent, net_premium |-> Absent, price |-> Absent, gross_premium |-> JNum(200)]),
      JDict([display_name |-> JStr(<<"F","r","e","e">>), name |-> Absent, net_premium |-> JNum(0), price |-> Absent, gross_premium |-> Absent]),
      JDict([display_name |-> Absent, name |-> Absent, net_premium |-> JNum(0), price |-> JNum(-500), gross_premium |-> Absent]),
      JStr(<<"K","e","y">>),
      JDict([display_name |-> JStr(<<"E">>), name |-> Absent, net_premium |-> JStr(<<Rupee,"5","0","0">>), price |-> Absent, gross_premium |-> Absent]),
      JDict([display_name |-> Absent, name |-> Absent, net_premium |-> JNull, price |-> JNum(0), gross_premium |-> JNum(700)]) }

\* the extractor writes premium_value as a number, or null when the price does not parse
AckoPremiumValues ==
    { Absent,
      JNull,
      JNum(0),
      JNum(400),
      JNum(15000) }

AckoPlan(category, premium_value, addons) ==
    JDict([category |-> category, premium_value |-> premium_value, addons |-> addons])

AckoPricingCalls ==
    {[fn |-> "build_acko_pricing", plan |-> AckoPlan(Absent, p, a)] :
        p \in AckoPremiumValues, a \in ListsOrAbsent(AckoAddonPool, MaxAddons)}
    \cup {[fn |-> "build_acko_pricing", plan |-> x] : x \in NonDicts}

IciciCoverPool ==
    { JDict([name |-> JStr(<<"R","S","A">>), price |-> JStr(<<Rupee,"5","0","0">>)]),
      JDict([name |-> Absent, price |-> JNum(-500)]),
      JDict([name |-> JStr(<<"F","r","e","e">>), price |-> JStr(<<Rupee,"0">>)]),
      JStr(<<"E","n","g","i","n","e"," ","P","r","o","t","e","c","t">>) }

IciciDiscountPool ==
    { JDict([name |-> JStr(<<"N","C","B">>), price |-> JStr(<<"-",Rupee," ","6","5","2">>)]),
      JDict([name |-> JStr(<<"L","o","y","a","l","t","y">>), price |-> JNum(652)]),
      JDict([name |-> JStr(<<"N","o","n","e">>), price |-> JNull]) }

IciciBasePremiums ==
    { Absent,
      JStr(<<Rupee,"5",",","1","4","2">>) }
IciciTotalPremiums ==
    { Absent,
      JStr(<<Rupee,"0">>),
      JStr(<<Rupee,"1","2",",","4","5","4">>) }
IciciGstRates ==
    { Absent,
      JStr(<<"1","8","%">>) }

IciciSummary(base_premium, covers, discounts, gst, total_premium) ==
    JDict([base_premium |-> base_premium, additional_covers_breakdown |-> covers,
           discount_breakdown |-> discounts, gst |-> gst, total_premium |-> total_premium])

IciciSummaries ==
    {IciciSummary(b, c, d, g, t) :
        b \in IciciBasePremiums, c \in ListsOrAbsent(IciciCoverPool, MaxAddons),
        d \in ListsOrAbsent(IciciDiscountPool, MaxAddons), g \in IciciGstRates,
        t \in IciciTotalPremiums}

IciciPricingCalls ==
    {[fn |-> "build_icici_pricing", premium_summary |-> x] : x \in IciciSummaries \cup NonDicts}

CholamsSectionPool ==
    { [section |-> <<"(","A",")"," ","O","w","n"," ","D","a","m","a","g","e">>,
       entries |-> JList(<<JDict([label |-> JStr(<<"O","w","n"," ","D","a","m","a","g","e">>), amount |-> JStr(<<"5",",","0","0","0">>)]), JDict([label |-> JStr(<<" ","O","w","n"," ","D","a","m","a","g","e"," ","P","r","e","m","i","u","m"," ","a","f","t","e","r"," ","D","i","s","c","o","u","n","t"," ","(","A","-","B",")">>), amount |-> JStr(<<"4",",","0","0","0">>)])>>)],
      [section |-> <<"(","B",")"," ","D","i","s","c","o","u","n","t">>,
       entries |-> JList(<<JDict([label |-> JStr(<<"N","o"," ","C","l","a","i","m"," ","B","o","n","u","s">>), amount |-> JStr(<<"1",",","0","0","0">>)]), JDict([label |-> JStr(<<"V","o","l","u","n","t","a","r","y">>), amount |-> JStr(<<"-","2","0","0">>)])>>)],
      [section |-> <<"(","B",")"," ","D","i","s","c","o","u","n","t"," ">>,
       entries |-> JList(<<JDict([label |-> JStr(<<"N","o"," ","C","l","a","i","m"," ","B","o","n","u","s">>), amount |-> JStr(<<"0">>)])>>)],
      [section |-> <<"(","B",")"," ","L","e","s","s">>,
       entries |-> JList(<<JDict([label |-> JStr(<<"G","S","T"," ","w","a","i","v","e","r">>), amount |-> JStr(<<"5","0">>)]), JDict([label |-> JStr(<<"T","h","i","r","d"," ","P","a","r","t","y"," ","r","e","b","a","t","e">>), amount |-> JStr(<<"2","0">>)])>>)],
      [section |-> <<"(","C",")"," ","A","d","d","-","O","n"," ","C","o","v","e","r">>,
       entries |-> JList(<<JDict([label |-> JStr(<<"Z","e","r","o"," ","D","e","p">>), amount |-> JStr(<<"5","0","0">>)]), JDict([label |-> JStr(<<"O","w","n"," ","D","a","m","a","g","e"," ","P","r","e","m","i","u","m"," ","(","A","-","B","+","C",")">>), amount |-> JStr(<<"4",",","5","0","0">>)]), JStr(<<"n","o","t","e">>)>>)],
      [section |-> <<"(","C",")"," ","A","d","d","-","O","n"," ","C","o","v","e","r","s">>,
       entries |-> JList(<<JDict([label |-> JStr(<<"R","S","A">>), amount |-> JStr(<<"3","0","0">>)]), JDict([label |-> JStr(<<"R","S","A"," ","r","e","f","u","n","d">>), amount |-> JStr(<<"-","3","0","0">>)])>>)],
      [section |-> <<"(","C",")"," ","T","o","t","a","l"," ","P","r","e","m","i","u","m">>,
       entries |-> JList(<<JDict([label |-> JStr(<<"N","e","t"," ","P","r","e","m","i","u","m"," ","(","A","+","B",")">>), amount |-> JStr(<<"6",",","0","0","0">>)]), JDict([label |-> JStr(<<"G","S","T"," ","@","1","8","%">>), amount |-> JStr(<<"1",",","0","8","0">>)]), JDict([label |-> JStr(<<"T","o","t","a","l"," ","P","r","e","m","i","u","m">>), amount |-> JStr(<<"7",",","0","8","0">>)])>>)],
      [section |-> <<"(","D",")"," ","T","h","i","r","d"," ","P","a","r","t","y">>,
       entries |-> JList(<<JDict([label |-> JStr(<<"B","a","s","i","c"," ","T","h","i","r","d"," ","P","a","r","t","y">>), amount |-> JNum(2000)]), JDict([label |-> Absent, amount |-> JNum(5)]), JDict([label |-> JStr(<<"O","t","h","e","r">>), amount |-> JStr(<<"7">>)])>>)],
      [section |-> <<"(","F",")"," ","T","o","t","a","l"," ","P","r","e","m","i","u","m">>,
       entries |-> JList(<<JDict([label |-> JStr(<<"N","e","t"," ","P","r","e","m","i","u","m">>), amount |-> JStr(<<"9",",","0","0","0">>)]), JDict([label |-> JStr(<<"T","o","t","a","l"," ","P","r","e","m","i","u","m">>), amount |-> JNum(10620)])>>)] }

CholamsPremiumTables ==
    {JDict(q) : q \in DictsUpTo(CholamsSectionPool, MaxSections, "section")}

CholamsPricingCalls ==
    {[fn |-> "build_cholams_pricing", plan_premium |-> x] :
        x \in CholamsPremiumTables \cup NonDicts}

RoyalSundaramAddonPool ==
    { [name |-> <<"z","e","r","o","_","d","e","p">>, value |-> JNum(500)],
      [name |-> <<"n","c","b","_","d","i","s","c","o","u","n","t">>, value |-> JNum(-300)],
      [name |-> <<"f","r","e","e","_","c","o","v","e","r">>, value |-> JNum(0)],
      [name |-> <<"r","s","a">>, value |-> JStr(<<Rupee," ","1","0","0">>)],
      [name |-> <<"r","e","f","u","n","d">>, value |-> JStr(<<"(","5","0","0",")">>)] }
RoyalSundaramOwnDamageBase ==
    { Absent,
      JNum(5000) }
RoyalSundaramLiabilityBase ==
    { Absent,
      JNum(0),
      JNum(2000) }
RoyalSundaramNet ==
    { Absent,
      JNum(0),
      JNum(2000),
      JNum(6000) }
RoyalSundaramGst18 ==
    { Absent,
      JNum(1080) }
RoyalSundaramGst ==
    { Absent,
      JNum(900) }
RoyalSundaramTotal ==
    { Absent,
      JNum(7080) }

RoyalSundaramAddons ==
    {Absent, JNull}
    \cup {JDict(q) : q \in DictsUpTo(RoyalSundaramAddonPool, MaxAddons, "name")}

RoyalSundaramBreakups ==
    {JDict([own_damage |-> JDict([base_premium |-> b, add_ons |-> a]),
            liability |-> JDict([base_premium |-> l]),
            net_premium |-> n, gst_18_percent |-> g18, gst_amount |-> g,
            total_premium |-> t]) :
        b \in RoyalSundaramOwnDamageBase, a \in RoyalSundaramAddons,
        l \in RoyalSundaramLiabilityBase, n \in RoyalSundaramNet,
        g18 \in RoyalSundaramGst18, g \in RoyalSundaramGst, t \in RoyalSundaramTotal}
    \cup {Absent, JNull}

RoyalSundaramPlan(plan_name, premium_breakup) ==
    JDict([plan_name |-> plan_name, premium_breakup |-> premium_breakup])

RoyalSundaramPricingCalls ==
    {[fn |-> "build_royal_sundaram_pricing", plan |-> RoyalSundaramPlan(Absent, pb)] :
        pb \in RoyalSundaramBreakups}
    \cup {[fn |-> "build_royal_sundaram_pricing", plan |-> x] : x \in NonDicts}

GoDigit_own_damage ==
    { Absent,
      JNum(700) }
GoDigit_third_party ==
    { Absent,
      JNum(300) }
GoDigit_addons ==
    { Absent,
      JNum(0),
      JNum(500),
      JStr(<<Rupee,"5">>) }
GoDigit_ncb_discount ==
    { Absent,
      JNum(0),
      JNum(500),
      JNum(-500) }
GoDigit_digit_discount ==
    { Absent,
      JNum(0),
      JNum(-500) }
GoDigit_net_premium ==
    { Absent,
      JNum(1000) }
GoDigit_gst ==
    { Absent,
      JNum(180) }
GoDigit_final_premium ==
    { Absent,
      JNum(1180) }

GoDigitBreakups ==
    {JDict([own_damage |-> od, third_party |-> tp, addons |-> a, ncb_discount |-> ncb,
            digit_discount |-> dd, net_premium |-> n, gst |-> g, final_premium |-> f]) :
        od \in GoDigit_own_damage, tp \in GoDigit_third_party, a \in GoDigit_addons,
        ncb \in GoDigit_ncb_discount, dd \in GoDigit_digit_discount,
        n \in GoDigit_net_premium, g \in GoDigit_gst, f \in GoDigit_final_premium}

GoDigitPricingCalls ==
    {[fn |-> "build_godigit_pricing", premium_breakup |-> x] :
        x \in GoDigitBreakups \cup NonDicts}

(***************************************************************************)
(* One call of a pricing builder on one scraped block.                     *)
(***************************************************************************)
PricingCalls ==
    AckoPricingCalls \cup IciciPricingCalls \cup CholamsPricingCalls
        \cup RoyalSundaramPricingCalls \cup GoDigitPricingCalls

InitPricing ==
    /\ call \in PricingCalls
    /\ ret = NoRet
    /\ MergeIdle
    /\ proc = NoProc

\* plan.get on a value that is not a dict raises AttributeError
CallBuildAckoPricing ==
    /\ call.fn = "build_acko_pricing"
    /\ ret = NoRet
    /\ ret' = IF call.plan.t = "dict" THEN Ret(build_acko_pricing(call.plan))
              ELSE Raised("AttributeError")
    /\ UNCHANGED <<call, mergeVars, proc>>

CallBuildIciciPricing ==
    /\ call.fn = "build_icici_pricing"
    /\ ret = NoRet
    /\ ret' = Ret(build_icici_pricing(call.premium_summary))
    /\ UNCHANGED <<call, mergeVars, proc>>

CallBuildCholamsPricing ==
    /\ call.fn = "build_cholams_pricing"
    /\ ret = NoRet
    /\ ret' = Ret(build_cholams_pricing(call.plan_premium))
    /\ UNCHANGED <<call, mergeVars, proc>>

CallBuildRoyalSundaramPricing ==
    /\ call.fn = "build_royal_sundaram_pricing"
    /\ ret = NoRet
    /\ ret' = Ret(build_royal_sundaram_pricing(call.plan))
    /\ UNCHANGED <<call, mergeVars, proc>>

CallBuildGoDigitPricing ==
    /\ call.fn = "build_godigit_pricing"
    /\ ret = NoRet
    /\ ret' = Ret(build_godigit_pricing(call.premium_breakup))
    /\ UNCHANGED <<call, mergeVars, proc>>

NextPricing ==
    \/ CallBuildAckoPricing
    \/ CallBuildIciciPricing
    \/ CallBuildCholamsPricing
    \/ CallBuildRoyalSundaramPricing
    \/ CallBuildGoDigitPricing

SpecPricing == InitPricing /\ [][NextPricing]_vars


(***************************************************************************)
(* Plan extractors.  A Plan keeps the fields the properties below read:    *)
(* insurer, category, premium_value, pricing_breakdown, claim_status.      *)
(***************************************************************************)
Plan(insurer, category, premium_value, pricing_breakdown, claim_status) ==
    [insurer |-> insurer, category |-> category, premium_value |-> premium_value,
     pricing_breakdown |-> pricing_breakdown, claim_status |-> JStr(claim_status)]

HasRaised(r) == "raised" \in DOMAIN r

\* the loop over the records: the first exception ends it, otherwise the list
\* of the plans built
PlansOrRaise(results) ==
    IF \E i \in DOMAIN results : HasRaised(results[i])
    THEN results[SetMin({i \in DOMAIN results : HasRaised(results[i])})]
    ELSE Ret([i \in DOMAIN results |-> results[i].v])

\* normalized_category or fallback
CategoryOr(normalized_category, fallback) ==
    IF normalized_category # <<>> THEN JStr(normalized_category) ELSE fallback

RECURSIVE IntToStr(_)
\* str(n) of a natural number
IntToStr(n) ==
    IF n < 10 THEN <<Digits[n + 1]>> ELSE IntToStr(n \div 10) \o <<Digits[(n % 10) + 1]>>

\* the (key, value) items of the dicts of a list, in order
RECURSIVE ItemsOfDicts(_)
ItemsOfDicts(entries) ==
    IF entries = <<>> THEN <<>>
    ELSE (IF Head(entries).t = "dict" THEN Head(entries).d ELSE <<>>)
         \o ItemsOfDicts(Tail(entries))

(***************************************************************************)
(* get_acko_plans                                                          *)
(***************************************************************************)
\* category_raw.upper() raises on a category that is not a str
AckoPlanInfo(plan, claim_status) ==
    IF plan.t # "dict" THEN Raised("AttributeError")
    ELSE LET category_raw == Get(plan.d, "category", JStr(<<>>))
         IN  IF category_raw.t # "str" THEN Raised("AttributeError")
             ELSE Ret(Plan("Acko",
                           CategoryOr(normalize_plan_category(category_raw), category_raw),
                           Get(plan.d, "premium_value", Float(0)),
                           build_acko_pricing(plan),
                           normalize_claim_status(claim_status)))

get_acko_plans(data, claim_status) ==
    LET plans == Get(data.d, "plans", JList(<<>>)).l
    IN  PlansOrRaise([i \in DOMAIN plans |-> AckoPlanInfo(plans[i], claim_status)])

(***************************************************************************)
(* get_icici_plans                                                         *)
(***************************************************************************)
IciciPlanInfo(premium_info, claim_status) ==
    IF premium_info.t # "dict" THEN Raised("AttributeError")
    ELSE LET plan_type == Get(premium_info.d, "plan_type", JStr(<<>>))
             premium == Get(premium_info.d, "premium", EmptyDict)
         IN  IF plan_type.t # "str" \/ premium.t # "dict" THEN Raised("AttributeError")
             ELSE LET premium_summary == Get(premium.d, "premium_summary", EmptyDict)
                  IN  IF premium_summary.t # "dict" THEN Raised("AttributeError")
                      ELSE LET total_premium_str ==
                                   Get(premium_summary.d, "total_premium", JStr(<<Rupee, "0">>))
                               base_premium_str ==
                                   Get(premium_summary.d, "base_premium", JStr(<<Rupee, "0">>))
                               premium_value == extract_premium_value(total_premium_str)
                               base_premium == extract_premium_value(base_premium_str)
                           IN  IF HasRaised(premium_value) \/ HasRaised(base_premium)
                               THEN Raised("AttributeError")
                               ELSE Ret(Plan("ICICI",
                                             CategoryOr(normalize_plan_category(plan_type),
                                                        JStr(StrLower(plan_type.s))),
                                             Float(premium_value.v),
                                             build_icici_pricing(premium_summary),
                                             normalize_claim_status(claim_status)))

get_icici_plans(data, claim_status) ==
    LET plans_offered == Get(data.d, "plans_offered", EmptyDict)
        premiums_list == Get(plans_offered.d, "premiums", JList(<<>>)).l
    IN  PlansOrRaise(
            [i \in DOMAIN premiums_list |-> IciciPlanInfo(premiums_list[i], claim_status)])

(***************************************************************************)
(* get_cholams_plans                                                       *)
(***************************************************************************)
\* plan_premium.get(section, []) on the premium table
SectionGet(plan_premium, section) ==
    LET at == {i \in DOMAIN plan_premium : plan_premium[i].section = section}
    IN  IF at = {} THEN JList(<<>>) ELSE plan_premium[SetMin(at)].entries

\* f"{amount}"
AmountText(amount) == IF amount.t = "num" THEN IntToStr(amount.n) ELSE amount.s

RECURSIVE CholamsTotalPremiumAmount(_, _)
\* the loop over the total-premium section: the last "Total Premium" line wins
CholamsTotalPremiumAmount(section, amount) ==
    IF section = <<>> THEN amount
    ELSE LET item == Head(section)
         IN  CholamsTotalPremiumAmount(
                 Tail(section),
                 IF item.t = "dict"
                    /\ StrContains(<<"T","o","t","a","l"," ","P","r","e","m","i","u","m">>,
                                   Get(item.d, "label", JStr(<<>>)).s)
                 THEN <<Rupee>> \o AmountText(Get(item.d, "amount", JStr(<<"0">>)))
                 ELSE amount)

CholamsPlanInfo(plan_name, plan_details, claim_status) ==
    LET plan_premium == Get(plan_details.d, "plan_premium", EmptyDict)
    IN  IF plan_premium.t # "dict" THEN Raised("AttributeError")
        ELSE LET f_section == SectionGet(plan_premium.d, <<"(","F",")"," ","T","o","t","a","l"," ","P","r","e","m","i","u","m">>)
                 total_premium_section ==
                     IF Truthy(f_section) THEN f_section
                     ELSE SectionGet(plan_premium.d, <<"(","C",")"," ","T","o","t","a","l"," ","P","r","e","m","i","u","m">>)
                 total_premium_amount ==
                     CholamsTotalPremiumAmount(total_premium_section.l, <<Rupee, "0">>)
                 premium_value == extract_premium_value(JStr(total_premium_amount))
             IN  Ret(Plan("Cholams",
                          CategoryOr(normalize_plan_category(JStr(plan_name)), JStr(s_comp)),
                          Float(premium_value.v),
                          build_cholams_pricing(plan_premium),
                          normalize_claim_status(claim_status)))

get_cholams_plans(data, claim_status) ==
    IF data.t # "list" THEN Ret(<<>>)
    ELSE IF Len(data.l) < 2 THEN Ret(<<>>)
    ELSE LET plans_data == data.l[2].l
             items == SelectSeq(ItemsOfDicts(plans_data), LAMBDA e : e.value.t = "dict")
         IN  PlansOrRaise(
                 [i \in DOMAIN items |->
                     CholamsPlanInfo(items[i].name, items[i].value, claim_status)])

(***************************************************************************)
(* get_royal_sundaram_plans                                                *)
(***************************************************************************)
RoyalSundaramPlanInfo(plan_key, plan, claim_status) ==
    LET plan_name ==
            PyOr(Get(plan.d, "plan_name", JNull),
                 JStr(StrTitle(StrReplaceChar(plan_key, "_", " "))))
    IN  IF plan_name.t # "str" THEN Raised("AttributeError")
        ELSE LET normalized_category ==
                     normalize_plan_category(PyOr(plan_name, JStr(plan_key)))
                 premium_breakup ==
                     PyOr(Get(plan.d, "premium_breakup", EmptyDict), EmptyDict).d
                 premium_value ==
                     extract_signed_amount(Get(premium_breakup, "total_premium", JNull))
             IN  Ret(Plan("Royal Sundaram",
                          CategoryOr(normalized_category, JStr(plan_key)),
                          Float(premium_value),
                          build_royal_sundaram_pricing(plan),
                          normalize_claim_status(claim_status)))

get_royal_sundaram_plans(data, claim_status) ==
    IF data.t # "dict" THEN Ret(<<>>)
    ELSE LET plans_data == PyOr(Get(data.d, "plans", EmptyDict), EmptyDict).d
             items == SelectSeq(plans_data, LAMBDA e : e.value.t = "dict")
         IN  PlansOrRaise(
                 [i \in DOMAIN items |->
                     RoyalSundaramPlanInfo(items[i].name, items[i].value, claim_status)])

(***************************************************************************)
(* build_idv_info.  A source dict is a record over the aliases of          *)
(* field_map, Absent where it has no such key; idv_info is a record over   *)
(* the normalized keys, Absent where the key is not set.                   *)
(***************************************************************************)
field_map ==
    [current |-> <<"current_idv", "idv", "default_idv", "idv_value", "slider_value">>,
     recommended |-> <<"recommended_idv">>,
     min |-> <<"min_idv", "idv_min">>,
     max |-> <<"max_idv", "idv_max">>,
     selected |-> <<"idv_selected">>]

IdvAliases == UNION {{field_map[k][i] : i \in DOMAIN field_map[k]} : k \in DOMAIN field_map}

\* key in source and source[key] not in (None, "")
IdvHolds(source, key) ==
    source[key] # Absent /\ source[key] # JNull /\ source[key] # JStr(<<>>)

\* the aliases of possible_keys the source holds a value under, as places
IdvAliasesHeld(source, possible_keys) ==
    {i \in DOMAIN possible_keys : IdvHolds(source, possible_keys[i])}

\* the amount under the first alias held, if any
IdvValue(source, possible_keys, held) ==
    IF held = {} THEN Absent
    ELSE Float(extract_signed_amount(source[possible_keys[SetMin(held)]]))

\* the variant in which a later source overrides a key already set
IdvFromSource_override(idv_info, source) ==
    IF source.t # "dict" THEN idv_info
    ELSE [normalized_key \in DOMAIN field_map |->
             IF IdvAliasesHeld(source.d, field_map[normalized_key]) = {}
             THEN idv_info[normalized_key]
             ELSE IdvValue(source.d, field_map[normalized_key],
                           IdvAliasesHeld(source.d, field_map[normalized_key]))]

\* the body of the loop over the sources: keys already set are kept, non-dict
\* sources are passed over
IdvFromSource(idv_info, source) ==
    IF source.t # "dict" THEN idv_info
    ELSE [normalized_key \in DOMAIN field_map |->
             IF idv_info[normalized_key] # Absent THEN idv_info[normalized_key]
             ELSE IdvValue(source.d, field_map[normalized_key],
                           IdvAliasesHeld(source.d, field_map[normalized_key]))]

RECURSIVE IdvFold(_, _)
IdvFold(idv_info, sources) ==
    IF sources = <<>> THEN idv_info
    ELSE IdvFold(IdvFromSource(idv_info, Head(sources)), Tail(sources))

build_idv_info(sources) == IdvFold([k \in DOMAIN field_map |-> Absent], sources)

(***************************************************************************)
(* get_godigit_plans                                                       *)
(***************************************************************************)
\* an idv mapping handed to build_idv_info as a source: a key of the mapping
\* is read only where it is one of the aliases of field_map
AsIdvSource(idv_info) ==
    JDict([a \in IdvAliases |-> IF a \in DOMAIN idv_info THEN idv_info[a] ELSE Absent])

\* details.get("idv") or {}
GoDigitIdvBlock(details) ==
    PyOr(Get(details.d, "idv", Absent), JDict([a \in IdvAliases |-> Absent]))

\* the (plan_name, details) items of the plan entries whose details are a dict
GoDigitItems(plans_offered) ==
    SelectSeq(ItemsOfDicts(plans_offered), LAMBDA e : e.value.t = "dict")

\* the idv blocks of the document that are dicts, in order
GoDigitIdvSources(plans_offered) ==
    LET with_idv == SelectSeq(GoDigitItems(plans_offered),
                        LAMBDA e : Get(e.value.d, "idv", Absent).t = "dict")
    IN  [i \in DOMAIN with_idv |-> GoDigitIdvBlock(with_idv[i].value)]

GoDigitSharedIdvInfo(plans_offered) == build_idv_info(GoDigitIdvSources(plans_offered))

GoDigitPlanInfo(plan_name, details, claim_status, shared_idv_info) ==
    LET premium_breakup == PyOr(Get(details.d, "premium_breakup", EmptyDict), EmptyDict)
        premium_value ==
            extract_signed_amount(Get(premium_breakup.d, "final_premium", JNull))
    IN  Ret(Plan("Go Digit",
                 CategoryOr(normalize_plan_category(JStr(plan_name)),
                            JStr(StrLower(plan_name))),
                 Float(premium_value),
                 build_godigit_pricing(premium_breakup),
                 normalize_claim_status(claim_status))
            @@ [idv |-> build_idv_info(<<GoDigitIdvBlock(details),
                                         AsIdvSource(shared_idv_info)>>)])

get_godigit_plans(data, claim_status) ==
    IF data.t # "dict" THEN Ret(<<>>)
    ELSE LET plans_offered ==
                 PyOr(Get(data.d, "plans_offered", JList(<<>>)), JList(<<>>)).l
             items == GoDigitItems(plans_offered)
         IN  PlansOrRaise(
                 [i \in DOMAIN items |->
                     GoDigitPlanInfo(items[i].name, items[i].value, claim_status,
                                     GoDigitSharedIdvInfo(plans_offered))])

(***************************************************************************)
(* Inputs of the plan extractors: scraped documents of at most MaxPlans    *)
(* records, the first drawn from the full pool of its insurer.             *)
(***************************************************************************)
\* the lists of at most n records: a record of First, then records of More
RecordLists(First, More, n) ==
    {<<>>} \cup UNION {{<<f>> \o r : f \in First, r \in [1..k -> More]} : k \in 0..(n - 1)}

ClaimStatusArgs ==
    { JStr(<<>>),
      JStr(<<"N","o","t"," ","C","l","a","i","m","e","d">>),
      JStr(<<"c","l","a","i","m","e","d">>) }

AckoPlanCategories ==
    { Absent,
      JNull,
      JStr(<<"Z","e","r","o"," ","D","e","p">>),
      JStr(<<"X","y","Z">>),
      JStr(<<"o","w","n"," ","d","a","m","a","g","e">>) }
AckoPlanAddons ==
    { Absent,
      JList(<<>>),
      JList(<<JDict([display_name |-> JStr(<<"R","S","A">>), name |-> Absent, net_premium |-> JNum(500), price |-> Absent, gross_premium |-> Absent])>>),
      JList(<<JDict([display_name |-> JStr(<<"R","S","A">>), name |-> Absent, net_premium |-> JNum(500), price |-> Absent, gross_premium |-> Absent]), JDict([display_name |-> Absent, name |-> JStr(<<"Z","e","r","o">>), net_premium |-> Absent, price |-> JNum(300), gross_premium |-> Absent])>>),
      JList(<<JDict([display_name |-> JStr(<<"F","r","e","e">>), name |-> Absent, net_premium |-> JNum(0), price |-> Absent, gross_premium |-> Absent])>>),
      JList(<<JDict([display_name |-> JStr(<<"R","S","A">>), name |-> Absent, net_premium |-> JNum(500), price |-> Absent, gross_premium |-> Absent]), JDict([display_name |-> Absent, name |-> Absent, net_premium |-> JNum(0), price |-> JNum(-500), gross_premium |-> Absent])>>),
      JList(<<JStr(<<"K","e","y">>), JDict([display_name |-> Absent, name |-> Absent, net_premium |-> JNull, price |-> JNum(0), gross_premium |-> JNum(700)])>>) }
AckoMorePlans ==
    { JDict([category |-> JStr(<<"T","h","i","r","d"," ","P","a","r","t","y">>), premium_value |-> JNum(2000), addons |-> JList(<<>>)]),
      JDict([category |-> JStr(<<"B","u","m","p","e","r"," ","t","o"," ","B","u","m","p","e","r">>), premium_value |-> JNum(15000), addons |-> JList(<<JDict([display_name |-> JStr(<<"R","S","A">>), name |-> Absent, net_premium |-> JNum(500), price |-> Absent, gross_premium |-> Absent])>>)]) }

AckoPlanPool ==
    {AckoPlan(c, p, a) : c \in AckoPlanCategories, p \in AckoPremiumValues, a \in AckoPlanAddons}

AckoDocuments ==
    {JDict([plans |-> JList(l)]) : l \in RecordLists(AckoPlanPool, AckoMorePlans, MaxPlans)}

IciciPlanTypes ==
    { Absent,
      JStr(<<"C","o","m","p","r","e","h","e","n","s","i","v","e">>),
      JStr(<<"O","w","n"," ","D","a","m","a","g","e">>),
      JStr(<<"S","p","e","c","i","a","l"," ","P","l","a","n">>),
      JStr(<<>>) }
IciciPlanCovers ==
    { Absent,
      JList(<<>>),
      JList(<<JDict([name |-> JStr(<<"R","S","A">>), price |-> JStr(<<Rupee,"5","0","0">>)])>>),
      JList(<<JDict([name |-> Absent, price |-> JNum(-500)])>>),
      JList(<<JDict([name |-> JStr(<<"F","r","e","e">>), price |-> JStr(<<Rupee,"0">>)])>>),
      JList(<<JStr(<<"E","n","g","i","n","e"," ","P","r","o","t","e","c","t">>)>>) }
IciciPlanTotals ==
    { Absent,
      JStr(<<Rupee,"0">>),
      JStr(<<Rupee,"1","2",",","4","5","4">>),
      JNum(12454) }
IciciMorePremiums ==
    { JDict([plan_type |-> JStr(<<"T","h","i","r","d"," ","P","a","r","t","y">>), premium |-> JDict([premium_summary |-> JDict([base_premium |-> Absent, additional_covers_breakdown |-> Absent, discount_breakdown |-> Absent, gst |-> Absent, total_premium |-> JStr(<<Rupee,"2",",","0","9","4">>)])])]),
      JDict([plan_type |-> JStr(<<"S","t","a","n","d","a","l","o","n","e"," ","O","D">>), premium |-> JDict([premium_summary |-> JDict([base_premium |-> JStr(<<Rupee,"5",",","1","4","2">>), additional_covers_breakdown |-> Absent, discount_breakdown |-> Absent, gst |-> Absent, total_premium |-> JStr(<<Rupee,"6",",","0","6","8">>)])])]) }

IciciPremiumPool ==
    {JDict([plan_type |-> pt,
            premium |-> JDict([premium_summary |-> IciciSummary(b, c, Absent, Absent, t)])]) :
        pt \in IciciPlanTypes, b \in IciciBasePremiums, c \in IciciPlanCovers,
        t \in IciciPlanTotals}
    \cup {JDict([plan_type |-> pt, premium |-> Absent]) : pt \in IciciPlanTypes}

IciciDocuments ==
    {JDict([plans_offered |-> JDict([premiums |-> JList(l)])]) :
        l \in RecordLists(IciciPremiumPool, IciciMorePremiums, MaxPlans)}
    \cup {JDict([plans_offered |-> Absent])}

CholamsPlanNames ==
    { <<"C","o","m","p","r","e","h","e","n","s","i","v","e"," ","C","o","v","e","r">>,
      <<"Z","e","r","o"," ","D","e","p","r","e","c","i","a","t","i","o","n">>,
      <<"T","h","i","r","d"," ","P","a","r","t","y"," ","L","i","a","b","i","l","i","t","y">>,
      <<"S","m","a","r","t"," ","S","a","v","e","r">> }
CholamsPlanDetails ==
    { JNull,
      JDict([plan_premium |-> Absent]),
      JDict([plan_premium |-> JDict(<<>>)]),
      JDict([plan_premium |-> JDict(<<[section |-> <<"(","F",")"," ","T","o","t","a","l"," ","P","r","e","m","i","u","m">>, entries |-> JList(<<JDict([label |-> JStr(<<"N","e","t"," ","P","r","e","m","i","u","m">>), amount |-> JStr(<<"9",",","0","0","0">>)]), JDict([label |-> JStr(<<"T","o","t","a","l"," ","P","r","e","m","i","u","m">>), amount |-> JNum(10620)])>>)]>>)]),
      JDict([plan_premium |-> JDict(<<[section |-> <<"(","C",")"," ","T","o","t","a","l"," ","P","r","e","m","i","u","m">>, entries |-> JList(<<JDict([label |-> JStr(<<"N","e","t"," ","P","r","e","m","i","u","m"," ","(","A","+","B",")">>), amount |-> JStr(<<"6",",","0","0","0">>)]), JDict([label |-> JStr(<<"G","S","T"," ","@","1","8","%">>), amount |-> JStr(<<"1",",","0","8","0">>)]), JDict([label |-> JStr(<<"T","o","t","a","l"," ","P","r","e","m","i","u","m">>), amount |-> JStr(<<"7",",","0","8","0">>)])>>)]>>)]),
      JDict([plan_premium |-> JDict(<<[section |-> <<"(","C",")"," ","A","d","d","-","O","n"," ","C","o","v","e","r">>, entries |-> JList(<<JDict([label |-> JStr(<<"Z","e","r","o"," ","D","e","p">>), amount |-> JStr(<<"5","0","0">>)]), JDict([label |-> JStr(<<"O","w","n"," ","D","a","m","a","g","e"," ","P","r","e","m","i","u","m"," ","(","A","-","B","+","C",")">>), amount |-> JStr(<<"4",",","5","0","0">>)]), JStr(<<"n","o","t","e">>)>>)], [section |-> <<"(","C",")"," ","T","o","t","a","l"," ","P","r","e","m","i","u","m">>, entries |-> JList(<<JDict([label |-> JStr(<<"N","e","t"," ","P","r","e","m","i","u","m"," ","(","A","+","B",")">>), amount |-> JStr(<<"6",",","0","0","0">>)]), JDict([label |-> JStr(<<"G","S","T"," ","@","1","8","%">>), amount |-> JStr(<<"1",",","0","8","0">>)]), JDict([label |-> JStr(<<"T","o","t","a","l"," ","P","r","e","m","i","u","m">>), amount |-> JStr(<<"7",",","0","8","0">>)])>>)]>>)]),
      JDict([plan_premium |-> JDict(<<[section |-> <<"(","A",")"," ","O","w","n"," ","D","a","m","a","g","e">>, entries |-> JList(<<JDict([label |-> JStr(<<"O","w","n"," ","D","a","m","a","g","e">>), amount |-> JStr(<<"5",",","0","0","0">>)]), JDict([label |-> JStr(<<" ","O","w","n"," ","D","a","m","a","g","e"," ","P","r","e","m","i","u","m"," ","a","f","t","e","r"," ","D","i","s","c","o","u","n","t"," ","(","A","-","B",")">>), amount |-> JStr(<<"4",",","0","0","0">>)])>>)], [section |-> <<"(","B",")"," ","D","i","s","c","o","u","n","t">>, entries |-> JList(<<JDict([label |-> JStr(<<"N","o"," ","C","l","a","i","m"," ","B","o","n","u","s">>), amount |-> JStr(<<"1",",","0","0","0">>)]), JDict([label |-> JStr(<<"V","o","l","u","n","t","a","r","y">>), amount |-> JStr(<<"-","2","0","0">>)])>>)]>>)]),
      JDict([plan_premium |-> JDict(<<[section |-> <<"(","C",")"," ","T","o","t","a","l"," ","P","r","e","m","i","u","m">>, entries |-> JList(<<JDict([label |-> JStr(<<"N","e","t"," ","P","r","e","m","i","u","m"," ","(","A","+","B",")">>), amount |-> JStr(<<"6",",","0","0","0">>)]), JDict([label |-> JStr(<<"G","S","T"," ","@","1","8","%">>), amount |-> JStr(<<"1",",","0","8","0">>)]), JDict([label |-> JStr(<<"T","o","t","a","l"," ","P","r","e","m","i","u","m">>), amount |-> JStr(<<"7",",","0","8","0">>)])>>)], [section |-> <<"(","F",")"," ","T","o","t","a","l"," ","P","r","e","m","i","u","m">>, entries |-> JList(<<JDict([label |-> JStr(<<"N","e","t"," ","P","r","e","m","i","u","m">>), amount |-> JStr(<<"9",",","0","0","0">>)]), JDict([label |-> JStr(<<"T","o","t","a","l"," ","P","r","e","m","i","u","m">>), amount |-> JNum(10620)])>>)]>>)]),
      JDict([plan_premium |-> JDict(<<[section |-> <<"(","D",")"," ","T","h","i","r","d"," ","P","a","r","t","y">>, entries |-> JList(<<JDict([label |-> JStr(<<"B","a","s","i","c"," ","T","h","i","r","d"," ","P","a","r","t","y">>), amount |-> JNum(2000)]), JDict([label |-> Absent, amount |-> JNum(5)]), JDict([label |-> JStr(<<"O","t","h","e","r">>), amount |-> JStr(<<"7">>)])>>)]>>)]) }
CholamsMorePlans ==
    { JDict(<<[name |-> <<"O","w","n"," ","D","a","m","a","g","e"," ","O","n","l","y">>, value |-> JDict([plan_premium |-> JDict(<<[section |-> <<"(","A",")"," ","O","w","n"," ","D","a","m","a","g","e">>, entries |-> JList(<<JDict([label |-> JStr(<<"O","w","n"," ","D","a","m","a","g","e">>), amount |-> JStr(<<"5",",","0","0","0">>)]), JDict([label |-> JStr(<<" ","O","w","n"," ","D","a","m","a","g","e"," ","P","r","e","m","i","u","m"," ","a","f","t","e","r"," ","D","i","s","c","o","u","n","t"," ","(","A","-","B",")">>), amount |-> JStr(<<"4",",","0","0","0">>)])>>)]>>)])]>>),
      JStr(<<"f","o","o","t","e","r">>) }
CholamsHeads ==
    { JDict([plans |-> Absent]),
      JStr(<<"q","u","o","t","e">>) }

CholamsPlanPool ==
    {JDict(<<[name |-> n, value |-> d]>>) : n \in CholamsPlanNames, d \in CholamsPlanDetails}

CholamsDocuments ==
    {JList(<<h, JList(l)>>) :
        h \in CholamsHeads, l \in RecordLists(CholamsPlanPool, CholamsMorePlans, MaxPlans)}
    \cup {JList(<<h>>) : h \in CholamsHeads} \cup NonDicts

RoyalSundaramPlanKeys ==
    { <<"o","w","n","_","d","a","m","a","g","e","_","c","o","v","e","r">>,
      <<"e","l","i","t","e","_","1">>,
      <<"t","p">> }
RoyalSundaramPlanNames ==
    { Absent,
      JStr(<<"C","o","m","p","r","e","h","e","n","s","i","v","e"," ","P","l","a","n">>),
      JStr(<<"E","l","i","t","e">>),
      JStr(<<" ">>) }
RoyalSundaramPlanBreakups ==
    { Absent,
      JNull,
      JDict([own_damage |-> JDict([base_premium |-> JNum(5000), add_ons |-> Absent]), liability |-> JDict([base_premium |-> JNum(2000)]), net_premium |-> JNum(6000), gst_18_percent |-> JNum(1080), gst_amount |-> Absent, total_premium |-> Absent]),
      JDict([own_damage |-> JDict([base_premium |-> JNum(5000), add_ons |-> Absent]), liability |-> JDict([base_premium |-> JNum(2000)]), net_premium |-> JNum(6000), gst_18_percent |-> JNum(1080), gst_amount |-> Absent, total_premium |-> JNum(7080)]),
      JDict([own_damage |-> JDict([base_premium |-> JNum(5000), add_ons |-> Absent]), liability |-> JDict([base_premium |-> JNum(2000)]), net_premium |-> JNum(6000), gst_18_percent |-> JNum(1080), gst_amount |-> Absent, total_premium |-> JStr(<<Rupee," ","7",",","0","8","0">>)]),
      JDict([own_damage |-> JDict([base_premium |-> JNum(5000), add_ons |-> Absent]), liability |-> JDict([base_premium |-> JNum(2000)]), net_premium |-> JNum(6000), gst_18_percent |-> JNum(1080), gst_amount |-> Absent, total_premium |-> JNum(-5)]),
      JDict([own_damage |-> JDict([base_premium |-> JNum(5000), add_ons |-> JDict(<<[name |-> <<"z","e","r","o","_","d","e","p">>, value |-> JNum(500)]>>)]), liability |-> JDict([base_premium |-> JNum(2000)]), net_premium |-> JNum(6000), gst_18_percent |-> JNum(1080), gst_amount |-> Absent, total_premium |-> Absent]),
      JDict([own_damage |-> JDict([base_premium |-> JNum(5000), add_ons |-> JDict(<<[name |-> <<"z","e","r","o","_","d","e","p">>, value |-> JNum(500)]>>)]), liability |-> JDict([base_premium |-> JNum(2000)]), net_premium |-> JNum(6000), gst_18_percent |-> JNum(1080), gst_amount |-> Absent, total_premium |-> JNum(7080)]),
      JDict([own_damage |-> JDict([base_premium |-> JNum(5000), add_ons |-> JDict(<<[name |-> <<"z","e","r","o","_","d","e","p">>, value |-> JNum(500)]>>)]), liability |-> JDict([base_premium |-> JNum(2000)]), net_premium |-> JNum(6000), gst_18_percent |-> JNum(1080), gst_amount |-> Absent, total_premium |-> JStr(<<Rupee," ","7",",","0","8","0">>)]),
      JDict([own_damage |-> JDict([base_premium |-> JNum(5000), add_ons |-> JDict(<<[name |-> <<"z","e","r","o","_","d","e","p">>, value |-> JNum(500)]>>)]), liability |-> JDict([base_premium |-> JNum(2000)]), net_premium |-> JNum(6000), gst_18_percent |-> JNum(1080), gst_amount |-> Absent, total_premium |-> JNum(-5)]),
      JDict([own_damage |-> JDict([base_premium |-> JNum(5000), add_ons |-> JDict(<<[name |-> <<"z","e","r","o","_","d","e","p">>, value |-> JNum(500)], [name |-> <<"n","c","b","_","d","i","s","c","o","u","n","t">>, value |-> JNum(-300)]>>)]), liability |-> JDict([base_premium |-> JNum(2000)]), net_premium |-> JNum(6000), gst_18_percent |-> JNum(1080), gst_amount |-> Absent, total_premium |-> Absent]),
      JDict([own_damage |-> JDict([base_premium |-> JNum(5000), add_ons |-> JDict(<<[name |-> <<"z","e","r","o","_","d","e","p">>, value |-> JNum(500)], [name |-> <<"n","c","b","_","d","i","s","c","o","u","n","t">>, value |-> JNum(-300)]>>)]), liability |-> JDict([base_premium |-> JNum(2000)]), net_premium |-> JNum(6000), gst_18_percent |-> JNum(1080), gst_amount |-> Absent, total_premium |-> JNum(7080)]),
      JDict([own_damage |-> JDict([base_premium |-> JNum(5000), add_ons |-> JDict(<<[name |-> <<"z","e","r","o","_","d","e","p">>, value |-> JNum(500)], [name |-> <<"n","c","b","_","d","i","s","c","o","u","n","t">>, value |-> JNum(-300)]>>)]), liability |-> JDict([base_premium |-> JNum(2000)]), net_premium |-> JNum(6000), gst_18_percent |-> JNum(1080), gst_amount |-> Absent, total_premium |-> JStr(<<Rupee," ","7",",","0","8","0">>)]),
      JDict([own_damage |-> JDict([base_premium |-> JNum(5000), add_ons |-> JDict(<<[name |-> <<"z","e","r","o","_","d","e","p">>, value |-> JNum(500)], [name |-> <<"n","c","b","_","d","i","s","c","o","u","n","t">>, value |-> JNum(-300)]>>)]), liability |-> JDict([base_premium |-> JNum(2000)]), net_premium |-> JNum(6000), gst_18_percent |-> JNum(1080), gst_amount |-> Absent, total_premium |-> JNum(-5)]) }
RoyalSundaramMorePlans ==
    { [name |-> <<"t","h","i","r","d","_","p","a","r","t","y">>, value |-> JDict([plan_name |-> JStr(<<"T","h","i","r","d"," ","P","a","r","t","y">>), premium_breakup |-> JDict([own_damage |-> Absent, liability |-> Absent, net_premium |-> Absent, gst_18_percent |-> Absent, gst_amount |-> Absent, total_premium |-> JNum(2500)])])],
      [name |-> <<"n","o","t","e">>, value |-> JStr(<<"s","e","e"," ","p","o","l","i","c","y"," ","w","o","r","d","i","n","g">>)] }

RoyalSundaramPlanPool ==
    {[name |-> k, value |-> RoyalSundaramPlan(n, pb)] :
        k \in RoyalSundaramPlanKeys, n \in RoyalSundaramPlanNames,
        pb \in RoyalSundaramPlanBreakups}

RoyalSundaramDocuments ==
    {JDict([plans |-> JDict(l)]) :
        l \in {q \in RecordLists(RoyalSundaramPlanPool, RoyalSundaramMorePlans, MaxPlans) :
                 \A i, j \in DOMAIN q : i # j => q[i].name # q[j].name}}
    \cup {JDict([plans |-> JNull])} \cup NonDicts

GoDigitPlanNames ==
    { <<"C","o","m","p","r","e","h","e","n","s","i","v","e"," ","P","o","l","i","c","y">>,
      <<"T","h","i","r","d"," ","P","a","r","t","y"," ","P","o","l","i","c","y">>,
      <<"P","a","y"," ","A","s"," ","Y","o","u"," ","D","r","i","v","e">>,
      <<"O","w","n"," ","D","a","m","a","g","e"," ","P","o","l","i","c","y">> }
GoDigitPlanBreakups ==
    { Absent,
      JNull,
      JDict([own_damage |-> JNum(700), third_party |-> JNum(300), addons |-> Absent, ncb_discount |-> Absent, digit_discount |-> Absent, net_premium |-> JNum(1000), gst |-> JNum(180), final_premium |-> Absent]),
      JDict([own_damage |-> JNum(700), third_party |-> JNum(300), addons |-> Absent, ncb_discount |-> Absent, digit_discount |-> Absent, net_premium |-> JNum(1000), gst |-> JNum(180), final_premium |-> JNum(1180)]),
      JDict([own_damage |-> JNum(700), third_party |-> JNum(300), addons |-> Absent, ncb_discount |-> Absent, digit_discount |-> Absent, net_premium |-> JNum(1000), gst |-> JNum(180), final_premium |-> JStr(<<Rupee,"1",",","1","8","0">>)]),
      JDict([own_damage |-> JNum(700), third_party |-> JNum(300), addons |-> Absent, ncb_discount |-> Absent, digit_discount |-> JNum(-500), net_premium |-> JNum(1000), gst |-> JNum(180), final_premium |-> Absent]),
      JDict([own_damage |-> JNum(700), third_party |-> JNum(300), addons |-> Absent, ncb_discount |-> Absent, digit_discount |-> JNum(-500), net_premium |-> JNum(1000), gst |-> JNum(180), final_premium |-> JNum(1180)]),
      JDict([own_damage |-> JNum(700), third_party |-> JNum(300), addons |-> Absent, ncb_discount |-> Absent, digit_discount |-> JNum(-500), net_premium |-> JNum(1000), gst |-> JNum(180), final_premium |-> JStr(<<Rupee,"1",",","1","8","0">>)]),
      JDict([own_damage |-> JNum(700), third_party |-> JNum(300), addons |-> Absent, ncb_discount |-> JNum(500), digit_discount |-> Absent, net_premium |-> JNum(1000), gst |-> JNum(180), final_premium |-> Absent]),
      JDict([own_damage |-> JNum(700), third_party |-> JNum(300), addons |-> Absent, ncb_discount |-> JNum(500), digit_discount |-> Absent, net_premium |-> JNum(1000), gst |-> JNum(180), final_premium |-> JNum(1180)]),
      JDict([own_damage |-> JNum(700), third_party |-> JNum(300), addons |-> Absent, ncb_discount |-> JNum(500), digit_discount |-> Absent, net_premium |-> JNum(1000), gst |-> JNum(180), final_premium |-> JStr(<<Rupee,"1",",","1","8","0">>)]),
      JDict([own_damage |-> JNum(700), third_party |-> JNum(300), addons |-> Absent, ncb_discount |-> JNum(500), digit_discount |-> JNum(-500), net_premium |-> JNum(1000), gst |-> JNum(180), final_premium |-> Absent]),
      JDict([own_damage |-> JNum(700), third_party |-> JNum(300), addons |-> Absent, ncb_discount |-> JNum(500), digit_discount |-> JNum(-500), net_premium |-> JNum(1000), gst |-> JNum(180), final_premium |-> JNum(1180)]),
      JDict([own_damage |-> JNum(700), third_party |-> JNum(300), addons |-> Absent, ncb_discount |-> JNum(500), digit_discount |-> JNum(-500), net_premium |-> JNum(1000), gst |-> JNum(180), final_premium |-> JStr(<<Rupee,"1",",","1","8","0">>)]),
      JDict([own_damage |-> JNum(700), third_party |-> JNum(300), addons |-> JNum(500), ncb_discount |-> Absent, digit_discount |-> Absent, net_premium |-> JNum(1000), gst |-> JNum(180), final_premium |-> Absent]),
      JDict([own_damage |-> JNum(700), third_party |-> JNum(300), addons |-> JNum(500), ncb_discount |-> Absent, digit_discount |-> Absent, net_premium |-> JNum(1000), gst |-> JNum(180), final_premium |-> JNum(1180)]),
      JDict([own_damage |-> JNum(700), third_party |-> JNum(300), addons |-> JNum(500), ncb_discount |-> Absent, digit_discount |-> Absent, net_premium |-> JNum(1000), gst |-> JNum(180), final_premium |-> JStr(<<Rupee,"1",",","1","8","0">>)]),
      JDict([own_damage |-> JNum(700), third_party |-> JNum(300), addons |-> JNum(500), ncb_discount |-> Absent, digit_discount |-> JNum(-500), net_premium |-> JNum(1000), gst |-> JNum(180), final_premium |-> Absent]),
      JDict([own_damage |-> JNum(700), third_party |-> JNum(300), addons |-> JNum(500), ncb_discount |-> Absent, digit_discount |-> JNum(-500), net_premium |-> JNum(1000), gst |-> JNum(180), final_premium |-> JNum(1180)]),
      JDict([own_damage |-> JNum(700), third_party |-> JNum(300), addons |-> JNum(500), ncb_discount |-> Absent, digit_discount |-> JNum(-500), net_premium |-> JNum(1000), gst |-> JNum(180), final_premium |-> JStr(<<Rupee,"1",",","1","8","0">>)]),
      JDict([own_damage |-> JNum(700), third_party |-> JNum(300), addons |-> JNum(500), ncb_discount |-> JNum(500), digit_discount |-> Absent, net_premium |-> JNum(1000), gst |-> JNum(180), final_premium |-> Absent]),
      JDict([own_damage |-> JNum(700), third_party |-> JNum(300), addons |-> JNum(500), ncb_discount |-> JNum(500), digit_discount |-> Absent, net_premium |-> JNum(1000), gst |-> JNum(180), final_premium |-> JNum(1180)]),
      JDict([own_damage |-> JNum(700), third_party |-> JNum(300), addons |-> JNum(500), ncb_discount |-> JNum(500), digit_discount |-> Absent, net_premium |-> JNum(1000), gst |-> JNum(180), final_premium |-> JStr(<<Rupee,"1",",","1","8","0">>)]),
      JDict([own_damage |-> JNum(700), third_party |-> JNum(300), addons |-> JNum(500), ncb_discount |-> JNum(500), digit_discount |-> JNum(-500), net_premium |-> JNum(1000), gst |-> JNum(180), final_premium |-> Absent]),
      JDict([own_damage |-> JNum(700), third_party |-> JNum(300), addons |-> JNum(500), ncb_discount |-> JNum(500), digit_discount |-> JNum(-500), net_premium |-> JNum(1000), gst |-> JNum(180), final_premium |-> JNum(1180)]),
      JDict([own_damage |-> JNum(700), third_party |-> JNum(300), addons |-> JNum(500), ncb_discount |-> JNum(500), digit_discount |-> JNum(-500), net_premium |-> JNum(1000), gst |-> JNum(180), final_premium |-> JStr(<<Rupee,"1",",","1","8","0">>)]) }
GoDigitMorePlans ==
    { JDict(<<[name |-> <<"T","h","i","r","d"," ","P","a","r","t","y"," ","P","o","l","i","c","y">>, value |-> JDict([premium_breakup |-> JDict([own_damage |-> Absent, third_party |-> JNum(300), addons |-> Absent, ncb_discount |-> Absent, digit_discount |-> Absent, net_premium |-> Absent, gst |-> Absent, final_premium |-> JNum(354)])])]>>),
      JStr(<<"n","/","a">>) }

GoDigitPlanPool ==
    {JDict(<<[name |-> n, value |-> JDict([premium_breakup |-> pb])]>>) :
        n \in GoDigitPlanNames, pb \in GoDigitPlanBreakups}

GoDigitDocuments ==
    {JDict([plans_offered |-> JList(l)]) :
        l \in RecordLists(GoDigitPlanPool, GoDigitMorePlans, MaxPlans)}
    \cup {JDict([plans_offered |-> JNull])} \cup NonDicts

PlansCalls ==
    {[fn |-> "get_acko_plans", data |-> d, claim_status |-> c] :
        d \in AckoDocuments, c \in ClaimStatusArgs}
    \cup {[fn |-> "get_icici_plans", data |-> d, claim_status |-> c] :
            d \in IciciDocuments, c \in ClaimStatusArgs}
    \cup {[fn |-> "get_cholams_plans", data |-> d, claim_status |-> c] :
            d \in CholamsDocuments, c \in ClaimStatusArgs}
    \cup {[fn |-> "get_royal_sundaram_plans", data |-> d, claim_status |-> c] :
            d \in RoyalSundaramDocuments, c \in ClaimStatusArgs}
    \cup {[fn |-> "get_godigit_plans", data |-> d, claim_status |-> c] :
            d \in GoDigitDocuments, c \in ClaimStatusArgs}

InitPlans ==
    /\ call \in PlansCalls
    /\ ret = NoRet
    /\ MergeIdle
    /\ proc = NoProc

CallGetAckoPlans ==
    /\ call.fn = "get_acko_plans"
    /\ ret = NoRet
    /\ ret' = get_acko_plans(call.data, call.claim_status)
    /\ UNCHANGED <<call, mergeVars, proc>>

CallGetIciciPlans ==
    /\ call.fn = "get_icici_plans"
    /\ ret = NoRet
    /\ ret' = get_icici_plans(call.data, call.claim_status)
    /\ UNCHANGED <<call, mergeVars, proc>>

CallGetCholamsPlans ==
    /\ call.fn = "get_cholams_plans"
    /\ ret = NoRet
    /\ ret' = get_cholams_plans(call.data, call.claim_status)
    /\ UNCHANGED <<call, mergeVars, proc>>

CallGetRoyalSundaramPlans ==
    /\ call.fn = "get_royal_sundaram_plans"
    /\ ret = NoRet
    /\ ret' = get_royal_sundaram_plans(call.data, call.claim_status)
    /\ UNCHANGED <<call, mergeVars, proc>>

CallGetGoDigitPlans ==
    /\ call.fn = "get_godigit_plans"
    /\ ret = NoRet
    /\ ret' = get_godigit_plans(call.data, call.claim_status)
    /\ UNCHANGED <<call, mergeVars, proc>>

NextPlans ==
    \/ CallGetAckoPlans
    \/ CallGetIciciPlans
    \/ CallGetCholamsPlans
    \/ CallGetRoyalSundaramPlans
    \/ CallGetGoDigitPlans

SpecPlans == InitPlans /\ [][NextPlans]_vars


(***************************************************************************)
(* Properties of the pricing builders and of the plan extractors.          *)
(***************************************************************************)
PricingBuilders ==
    {"build_acko_pricing", "build_icici_pricing", "build_cholams_pricing",
     "build_royal_sundaram_pricing", "build_godigit_pricing"}

PlanExtractors ==
    {"get_acko_plans", "get_icici_plans", "get_cholams_plans",
     "get_royal_sundaram_plans", "get_godigit_plans"}

PricingDone == call.fn \in PricingBuilders /\ ret.done /\ ~HasRaised(ret)
PlansDone == call.fn \in PlanExtractors /\ ret.done /\ ~HasRaised(ret)

\* C2: whatever a pricing builder returns, early returns for non-dict input
\* included, has addons_total None exactly when addons_breakdown is empty and
\* discounts_total None exactly when discount_breakdown is empty; a non-empty
\* breakdown whose prices sum to 0 has the total 0.0, not None.
C2_TotalsNoneIffEmpty ==
    PricingDone =>
        /\ (ret.v.addons_total = JNull) <=> (ret.v.addons_breakdown = <<>>)
        /\ (ret.v.discounts_total = JNull) <=> (ret.v.discount_breakdown = <<>>)
        /\ (ret.v.addons_breakdown # <<>> /\ SumPrices(ret.v.addons_breakdown) = 0)
               => ret.v.addons_total = Float(0)
        /\ (ret.v.discount_breakdown # <<>> /\ SumPrices(ret.v.discount_breakdown) = 0)
               => ret.v.discounts_total = Float(0)

\* two add-ons that cancel give the total 0.0, beside an empty discount
\* breakdown with the total None
C2_Witness ==
    /\ PricingDone
    /\ Len(ret.v.addons_breakdown) = 2
    /\ SumPrices(ret.v.addons_breakdown) = 0
    /\ ret.v.addons_total = Float(0)
    /\ ret.v.discount_breakdown = <<>>
    /\ ret.v.discounts_total = JNull

IsNumber(x) == x.t \in {"num", "float"}
NumberValue(x) == IF x.t = "num" THEN x.n * Scale ELSE x.v

RECURSIVE AckoAddonsSum(_)
\* the sum of the prices of the addons that are dicts
AckoAddonsSum(addons) ==
    IF addons = <<>> THEN 0
    ELSE (IF Head(addons).t = "dict" THEN AckoAddonAmount(Head(addons).d) ELSE 0)
         + AckoAddonsSum(Tail(addons))

AckoHasPricedAddon(addons) ==
    \E i \in DOMAIN addons : addons[i].t = "dict" /\ AckoAddonAmount(addons[i].d) # 0

AckoPricingOf(plan_info, addons) ==
    LET pricing == plan_info.pricing_breakdown
    IN  /\ IsNumber(plan_info.premium_value)
        /\ pricing.total_premium = Float(NumberValue(plan_info.premium_value))
        /\ pricing.addons_total =
               IF AckoHasPricedAddon(addons) THEN Float(AckoAddonsSum(addons)) ELSE JNull
        /\ pricing.base_premium =
               Float(IF pricing.total_premium.v > AckoAddonsSum(addons)
                     THEN pricing.total_premium.v - AckoAddonsSum(addons) ELSE 0)

\* C3: get_acko_plans yields one Plan per Acko plan, whose pricing_breakdown has
\* total_premium equal to the plan's premium_value, addons_total equal to the sum
\* of the priced addons (None when no addon is priced) and base_premium equal to
\* max(total_premium - addons sum, 0).
C3_AckoTotalIsPremiumValue ==
    (call.fn = "get_acko_plans" /\ PlansDone) =>
        LET plans == Get(call.data.d, "plans", JList(<<>>)).l
        IN  /\ Len(ret.v) = Len(plans)
            /\ \A i \in DOMAIN plans :
                   AckoPricingOf(ret.v[i], Get(plans[i].d, "addons", JList(<<>>)).l)

CanonicalCategories == {JStr(s_comp), JStr(s_od), JStr(s_tp), JStr(<<>>)}

\* C5: every plan a plan extractor returns has the category "comp", "od", "tp"
\* or "".
C5_CategoryIsCanonicalKey ==
    PlansDone => \A i \in DOMAIN ret.v : ret.v[i].category \in CanonicalCategories

\* C19: for every plan an extractor returns, premium_value is a parsed number
\* greater than or equal to 0; a negative or non-numeric source premium never
\* reaches the Plan.
C19_PremiumValueIsNonNegativeNumber ==
    PlansDone =>
        \A i \in DOMAIN ret.v :
            /\ IsNumber(ret.v[i].premium_value)
            /\ NumberValue(ret.v[i].premium_value) >= 0

\* C12: no exception escapes a plan extractor or a pricing builder, whatever
\* parsed JSON it is given: a missing key, a null field or a field of the wrong
\* type gives a partially populated or skipped record.
C12_NoExceptionEscapes ==
    (call.fn \in PlanExtractors \cup PricingBuilders /\ ret.done) => ~HasRaised(ret)

\* the premium_breakup of a Royal Sundaram plan given to the builder
RoyalSundaramBreakupOf(plan) == PyOr(Get(plan.d, "premium_breakup", EmptyDict), EmptyDict).d
IsPresent(x) == x # Absent /\ x # JNull
RoyalSundaramDone ==
    /\ call.fn = "build_royal_sundaram_pricing" /\ PricingDone
    /\ call.plan.t = "dict"
    /\ RoyalSundaramBreakupOf(call.plan) # <<>>

\* C15: build_royal_sundaram_pricing sets own_damage_premium to net_premium
\* minus liability.base_premium whenever both are present in the plan's
\* premium_breakup, and to None when either one is missing.
C15_OwnDamageIsNetMinusLiability ==
    RoyalSundaramDone =>
        LET net_premium == RoyalSundaramBreakupOf(call.plan).net_premium
            liability_base == RoyalSundaramBreakupOf(call.plan).liability.d.base_premium
        IN  ret.v.own_damage_premium =
                IF IsPresent(net_premium) /\ IsPresent(liability_base)
                THEN Float(extract_signed_amount(net_premium)
                           - extract_signed_amount(liability_base))
                ELSE JNull

\* C15, as the code has it: own_damage_premium is net_premium minus
\* liability.base_premium when both amounts are non-zero and differ, and None
\* when either is missing, null or zero, or when the two are equal.
C15_OwnDamageWhenNonZeroAndDifferent ==
    RoyalSundaramDone =>
        LET net_premium ==
                extract_signed_amount(PyOr(RoyalSundaramBreakupOf(call.plan).net_premium, JNull))
            liability_base ==
                extract_signed_amount(
                    PyOr(RoyalSundaramBreakupOf(call.plan).liability.d.base_premium, JNull))
        IN  ret.v.own_damage_premium =
                IF net_premium # 0 /\ liability_base # 0 /\ net_premium # liability_base
                THEN Float(net_premium - liability_base)
                ELSE JNull

\* net 6000 and liability 2000 give the own-damage premium 4000
C15_Witness ==
    /\ RoyalSundaramDone
    /\ RoyalSundaramBreakupOf(call.plan).net_premium = JNum(6000)
    /\ RoyalSundaramBreakupOf(call.plan).liability.d.base_premium = JNum(2000)
    /\ ret.v.own_damage_premium = Float(4000 * Scale)

CholamsDone ==
    call.fn = "build_cholams_pricing" /\ PricingDone /\ call.plan_premium.t = "dict"

\* the label of a table line as the rules read it
RuleLabel(line) == StrLower(CholamsLabel(line.entry))

\* the field a label rule gives the line, "" when no rule names it
RuledField(line) ==
    IF StrContains(<<"o","w","n"," ","d","a","m","a","g","e"," ","p","r","e","m","i","u","m"," ","a","f","t","e","r"," ","d","i","s","c","o","u","n","t">>, RuleLabel(line)) THEN "own_damage_premium"
    ELSE IF RuleLabel(line) = <<"o","w","n"," ","d","a","m","a","g","e">> THEN "base_premium"
    ELSE IF StrContains(<<"t","h","i","r","d"," ","p","a","r","t","y">>, RuleLabel(line)) THEN "third_party_premium"
    ELSE IF StrStartsWith(RuleLabel(line), <<"n","e","t"," ","p","r","e","m","i","u","m">>) THEN "net_premium"
    ELSE IF StrStartsWith(RuleLabel(line), <<"t","o","t","a","l"," ","p","r","e","m","i","u","m">>) THEN "total_premium"
    ELSE IF StrContains(<<"g","s","t">>, RuleLabel(line)) THEN "gst_amount"
    ELSE ""

InAddOnSection(line) == StrStartsWith(line.section, <<"(","C",")"," ","A","d","d","-","O","n">>)
InDiscountSection(line) == StrStartsWith(line.section, <<"(","B",")">>)
IsOwnDamagePremiumLine(line) == StrContains(<<"o","w","n"," ","d","a","m","a","g","e"," ","p","r","e","m","i","u","m">>, RuleLabel(line))

\* the lines of the table of the call, in order
TableLines == CholamsLines(call.plan_premium.d)

\* the names of a breakdown, and the labels of table lines, in order
BreakdownNames(breakdown) == [i \in DOMAIN breakdown |-> breakdown[i].name]
LineLabels(lines) == [i \in DOMAIN lines |-> JStr(CholamsLabel(lines[i].entry))]

\* C24: in build_cholams_pricing a line whose label matches a named rule sets
\* that field; every remaining line of a "(C) Add-On" section, except the
\* own-damage-premium line, is appended to addons_breakdown; every line of a
\* "(B)" section is appended to discount_breakdown with a price that is never
\* positive, so discounts_total is never positive.
C24_EveryDiscountSectionLineIsADiscount ==
    CholamsDone =>
        /\ BreakdownNames(ret.v.addons_breakdown) =
               LineLabels(SelectSeq(TableLines,
                   LAMBDA line : /\ RuledField(line) = ""
                                 /\ InAddOnSection(line)
                                 /\ ~IsOwnDamagePremiumLine(line)))
        /\ BreakdownNames(ret.v.discount_breakdown) =
               LineLabels(SelectSeq(TableLines, InDiscountSection))
        /\ \A i \in DOMAIN ret.v.discount_breakdown : ret.v.discount_breakdown[i].price <= 0
        /\ ret.v.discounts_total # JNull => ret.v.discounts_total.v <= 0

\* the lines a rule gives the field
LinesRuled(field) == SelectSeq(TableLines, LAMBDA line : RuledField(line) = field)

\* C24, as the code has it: a line whose label matches a label rule (the five
\* named ones and "own damage", which sets base_premium; the first rule that
\* matches) sets that field and goes nowhere else; of the remaining lines, those
\* of a "(C) Add-On" section, except the own-damage-premium line, are appended
\* to addons_breakdown and those of a "(B)" section to discount_breakdown, with
\* the price -|amount|; discounts_total is never positive.
C24_RemainingLinesAreRouted ==
    CholamsDone =>
        /\ \A field \in {"own_damage_premium", "base_premium", "third_party_premium",
                         "net_premium", "total_premium", "gst_amount"} :
               IF LinesRuled(field) = <<>> THEN ret.v[field] = JNull
               ELSE ret.v[field] =
                        Float(CholamsAmount(LinesRuled(field)[Len(LinesRuled(field))].entry))
        /\ LET addons == SelectSeq(TableLines,
                             LAMBDA line : /\ RuledField(line) = ""
                                           /\ InAddOnSection(line)
                                           /\ ~IsOwnDamagePremiumLine(line))
               discounts == SelectSeq(TableLines,
                                LAMBDA line : /\ RuledField(line) = ""
                                              /\ ~InAddOnSection(line)
                                              /\ InDiscountSection(line))
           IN  /\ ret.v.addons_breakdown =
                      [i \in DOMAIN addons |->
                          [name |-> JStr(CholamsLabel(addons[i].entry)),
                           price |-> CholamsAmount(addons[i].entry)]]
               /\ ret.v.discount_breakdown =
                      [i \in DOMAIN discounts |->
                          [name |-> JStr(CholamsLabel(discounts[i].entry)),
                           price |-> -Abs(CholamsAmount(discounts[i].entry))]]
        /\ \A i \in DOMAIN ret.v.discount_breakdown : ret.v.discount_breakdown[i].price <= 0
        /\ ret.v.discounts_total # JNull => ret.v.discounts_total.v <= 0

\* a "(B)" section with a positive and a negative amount, both stored negative,
\* beside an add-on section whose own-damage-premium line is left out
C24_Witness ==
    /\ CholamsDone
    /\ Len(ret.v.discount_breakdown) = 2
    /\ \E i \in DOMAIN TableLines :
           InDiscountSection(TableLines[i]) /\ CholamsAmount(TableLines[i].entry) > 0
    /\ \A i \in DOMAIN ret.v.discount_breakdown : ret.v.discount_breakdown[i].price < 0
    /\ ret.v.discounts_total.v < 0
    /\ Len(ret.v.addons_breakdown) = 1
    /\ \E i \in DOMAIN TableLines :
           InAddOnSection(TableLines[i]) /\ IsOwnDamagePremiumLine(TableLines[i])

\* the two named discount fields of a GoDigit premium breakup, as amounts
GoDigitDiscountFields ==
    <<extract_signed_amount(Get(call.premium_breakup.d, "ncb_discount", JNull)),
      extract_signed_amount(Get(call.premium_breakup.d, "digit_discount", JNull))>>

make_mappings ==
    << [key |-> <<"t","a","t","a">>, value |-> <<"T","a","t","a"," ","M","o","t","o","r","s">>],
       [key |-> <<"t","a","t","a"," ","m","o","t","o","r","s">>, value |-> <<"T","a","t","a"," ","M","o","t","o","r","s">>],
       [key |-> <<"h","y","u","n","d","a","i">>, value |-> <<"H","y","u","n","d","a","i">>],
       [key |-> <<"h","y","u","n","d","a","i"," ","m","o","t","o","r","s">>, value |-> <<"H","y","u","n","d","a","i">>],
       [key |-> <<"h","o","n","d","a">>, value |-> <<"H","o","n","d","a">>],
       [key |-> <<"h","o","n","d","a"," ","m","o","t","o","r","s">>, value |-> <<"H","o","n","d","a">>],
       [key |-> <<"m","a","r","u","t","i">>, value |-> <<"M","a","r","u","t","i"," ","S","u","z","u","k","i">>],
       [key |-> <<"m","a","r","u","t","i"," ","s","u","z","u","k","i">>, value |-> <<"M","a","r","u","t","i"," ","S","u","z","u","k","i">>],
       [key |-> <<"t","o","y","o","t","a">>, value |-> <<"T","o","y","o","t","a">>],
       [key |-> <<"t","o","y","o","t","a"," ","m","o","t","o","r","s">>, value |-> <<"T","o","y","o","t","a">>] >>

\* the aliases the lowercased make contains, as places in the table
MakeAliasesIn(make_lower) ==
    {i \in DOMAIN make_mappings : StrContains(make_mappings[i].key, make_lower)}

\* the value of the first such alias, in table order, else the make in title case
MappedMake(make, aliases) ==
    IF aliases = {} THEN StrTitle(StrStrip(make))
    ELSE make_mappings[SetMin(aliases)].value

normalize_make_display(make) ==
    IF make = <<>> THEN <<>>
    ELSE MappedMake(make, MakeAliasesIn(StrLower(StrStrip(make))))

\* `if "i20" or "i 20" in model_lower` tests the truth of the literal "i20"
ModelDisplayOf(model, model_lower) ==
    IF StrContains(<<"n","e","x","o","n">>, model_lower) THEN <<"N","e","x","o","n">>
    ELSE IF <<"i","2","0">> # <<>> \/ StrContains(<<"i"," ","2","0">>, model_lower) THEN <<"I","2","0">>
    ELSE IF model = <<>> THEN <<>>
    ELSE StrTitle(StrStrip(model))

normalize_model_display(model) == ModelDisplayOf(model, StrLower(StrStrip(model)))

normalize_make_model(make, model) ==
    <<normalize_make_display(make), normalize_model_display(model)>>

\* the en dash and the em dash, each one character of a string
EnDash == "EN DASH"
EmDash == "EM DASH"

\* the class of the separator pattern: whitespace, hyphen, colon and the two dashes
SeparatorChars == {" ", "\t", "\n", "-", ":", EnDash, EmDash}

\* where a match of model[i..], its characters joined by \s*, can end in cleaned
\* when begun at pos; characters compare under re.IGNORECASE
RECURSIVE SpacedMatchEnds(_, _, _, _)
SpacedMatchEnds(model, i, cleaned, pos) ==
    IF i > Len(model) THEN {pos}
    ELSE IF pos > Len(cleaned) \/ LowerChar(cleaned[pos]) # LowerChar(model[i]) THEN {}
    ELSE IF i = Len(model) THEN {pos + 1}
    ELSE UNION { SpacedMatchEnds(model, i + 1, cleaned, q) :
                   q \in {r \in (pos + 1)..(Len(cleaned) + 1) :
                            \A k \in (pos + 1)..(r - 1) : IsSpace(cleaned[k])} }

\* the first position after the separators that follow position pos
AfterSeparators(cleaned, pos) ==
    SetMin({j \in pos..(Len(cleaned) + 1) : j > Len(cleaned) \/ cleaned[j] \notin SeparatorChars})

\* pattern.sub("", cleaned) for the pattern anchored at the start of cleaned
PatternSub(cleaned, ends) ==
    IF ends = {} THEN cleaned
    ELSE SubSeq(cleaned, AfterSeparators(cleaned, SetMax(ends)), Len(cleaned))

SplitVariant(model, cleaned) ==
    StrStrip(PatternSub(cleaned, SpacedMatchEnds(model, 1, cleaned, 1)))

SplitCleaned(cleaned) ==
    <<StrStrip(normalize_model_display(cleaned)),
      SplitVariant(StrStrip(normalize_model_display(cleaned)), cleaned)>>

split_model_variant(model_variant) ==
    IF model_variant = <<>> THEN << <<>>, <<>> >>
    ELSE SplitCleaned(StrStrip(model_variant))


init_car_file_entry ==
    [acko |-> <<>>, icici |-> <<>>, cholams |-> <<>>, royal_sundaram |-> <<>>,
     godigit |-> <<>>]

\* the variant that matches equal names only
NamesMatch_exact(existing_make_model_norm, existing_variant, make_model_norm, variant) ==
    existing_make_model_norm = make_model_norm /\ existing_variant = variant

\* the test of lines 910-921 on the normalized names and the variants
NamesMatch(existing_make_model_norm, existing_variant, make_model_norm, variant) ==
    /\ existing_make_model_norm[1] = make_model_norm[1]
    /\ \/ StrContains(existing_make_model_norm[2], make_model_norm[2])
       \/ StrContains(make_model_norm[2], existing_make_model_norm[2])
    /\ \/ existing_variant = variant
       \/ StrContains(variant, existing_variant)
       \/ StrContains(existing_variant, variant)

KeyMatchesEntry(existing, make_model_norm, variant) ==
    NamesMatch(normalize_make_model(existing[1], existing[2]), existing[3],
               make_model_norm, variant)

\* the keys the inner loop would accept, as places in the map
MatchingKeys(map, make_model_norm, variant) ==
    {i \in DOMAIN map : KeyMatchesEntry(map[i].key, make_model_norm, variant)}

\* {field: entry.get(field) for field in entry_fields}, updated with the extra
\* fields; the one extra_fields_func in use normalizes the claim status
DataDict(entry, entry_fields, extra_fields_func) ==
    [f \in entry_fields \cup (IF extra_fields_func = "none" THEN {} ELSE {"claim_status"}) |->
        IF f = "claim_status" /\ extra_fields_func # "none"
        THEN JStr(normalize_claim_status(entry.claim_status))
        ELSE IF f \in DOMAIN entry THEN entry[f] ELSE JNull]

\* the variant in which the last matching key takes the data dict
StoreEntry_last_match(map, matched, key, insurer_key, data_dict) ==
    IF matched # {}
    THEN [map EXCEPT ![SetMax(matched)].files[insurer_key] = Append(@, data_dict)]
    ELSE Append(map, [key |-> key,
                      files |-> [init_car_file_entry EXCEPT ![insurer_key] = <<data_dict>>]])

\* the variant that overwrites the list of the key instead of appending to it
StoreEntry_overwrite(map, matched, key, insurer_key, data_dict) ==
    IF matched # {}
    THEN [map EXCEPT ![SetMin(matched)].files[insurer_key] = <<data_dict>>]
    ELSE Append(map, [key |-> key,
                      files |-> [init_car_file_entry EXCEPT ![insurer_key] = <<data_dict>>]])

\* the first matching key takes the data dict; without a match the entry's own
\* key takes it, created at the end of the map when it is new
StoreEntry(map, matched, key, insurer_key, data_dict) ==
    IF matched # {}
    THEN [map EXCEPT ![SetMin(matched)].files[insurer_key] = Append(@, data_dict)]
    ELSE IF \E i \in DOMAIN map : map[i].key = key
    THEN [map EXCEPT ![CHOOSE i \in DOMAIN map : map[i].key = key].files[insurer_key] =
             Append(@, data_dict)]
    ELSE Append(map, [key |-> key,
                      files |-> [init_car_file_entry EXCEPT ![insurer_key] = <<data_dict>>]])

\* the body of the outer loop for one entry and its data dict
MergeEntry(map, entry, insurer_key, data_dict) ==
    StoreEntry(map,
               MatchingKeys(map, normalize_make_model(entry.make, entry.model),
                            entry.variant),
               <<entry.make, entry.model, entry.variant>>, insurer_key, data_dict)

RECURSIVE merge_insurer_data_into_car_map(_, _, _, _, _)
merge_insurer_data_into_car_map(map, insurer_data_list, insurer_key, entry_fields, extra_fields_func) ==
    IF insurer_data_list = <<>> THEN map
    ELSE merge_insurer_data_into_car_map(
             MergeEntry(map, Head(insurer_data_list), insurer_key,
                        DataDict(Head(insurer_data_list), entry_fields, extra_fields_func)),
             Tail(insurer_data_list), insurer_key, entry_fields, extra_fields_func)

(***************************************************************************)
(* Merges of entries into the car map, with the arguments of the call      *)
(* sites of scan_all_car_data: each file read gives one entry, so no two   *)
(* entries share a file.  The vehicles are names as documents and callers  *)
(* spell them, raw and already normalized.                                 *)
(***************************************************************************)
VehiclePool ==
    { [make |-> <<"T","a","t","a"," ","M","o","t","o","r","s">>, model |-> <<"N","e","x","o","n">>, variant |-> <<"X","Z"," ","P","l","u","s">>],
      [make |-> <<"t","a","t","a">>, model |-> <<"n","e","x","o","n">>, variant |-> <<"x","z">>],
      [make |-> <<"H","y","u","n","d","a","i">>, model |-> <<"i","2","0">>, variant |-> <<"S","p","o","r","t","z">>],
      [make |-> <<"H","y","u","n","d","a","i">>, model |-> <<"C","r","e","t","a">>, variant |-> <<"s","p","o","r","t","z">>],
      [make |-> <<"M","a","r","u","t","i">>, model |-> <<"S","w","i","f","t">>, variant |-> <<"V","X","I">>],
      [make |-> <<"M","a","r","u","t","i"," ","S","u","z","u","k","i">>, model |-> <<"S","w","i","f","t">>, variant |-> <<"V","X","I"," ","A","M","T">>],
      [make |-> <<"M","a","r","u","t","i">>, model |-> <<"S","w","i","f","t"," ","D","z","i","r","e">>, variant |-> <<"A","M","T">>] }

\* the insurers merged, with the entry_fields and extra_fields_func of their
\* call sites
MergeSites ==
    { [insurer_key |-> "icici", entry_fields |-> {"file", "registration", "claim_status"},
       extra_fields_func |-> "none"],
      [insurer_key |-> "royal_sundaram", entry_fields |-> {"file", "registration"},
       extra_fields_func |-> "normalize_claim_status"] }

RECURSIVE TotalRefs(_)
\* the number of file references the map holds
TotalRefs(map) ==
    IF map = <<>> THEN 0
    ELSE Len(Head(map).files.acko) + Len(Head(map).files.icici)
         + Len(Head(map).files.cholams) + Len(Head(map).files.royal_sundaram)
         + Len(Head(map).files.godigit) + TotalRefs(Tail(map))

\* the entry a scanner builds for the n-th file read
ScannedEntry(vehicle, n) ==
    [make |-> vehicle.make, model |-> vehicle.model, variant |-> vehicle.variant,
     file |-> JStr(<<"f">> \o IntToStr(n)), registration |-> JStr(<<>>),
     claim_status |-> JStr(<<"N","o","t"," ","C","l","a","i","m","e","d">>)]

InitMerge ==
    /\ car_data_map = <<>>
    /\ last_merge = NoCall
    /\ call = NoCall
    /\ ret = NoRet
    /\ proc = NoProc

MergeInsurerDataIntoCarMap ==
    \E site \in MergeSites, k \in 0..MaxEntries :
        /\ TotalRefs(car_data_map) + k <= MaxRefs
        /\ \E vehicles \in [1..k -> VehiclePool] :
               LET insurer_data_list ==
                       [i \in 1..k |->
                           ScannedEntry(vehicles[i], TotalRefs(car_data_map) + i)]
               IN  /\ car_data_map' =
                          merge_insurer_data_into_car_map(
                              car_data_map, insurer_data_list, site.insurer_key,
                              site.entry_fields, site.extra_fields_func)
                   /\ last_merge' = [fn |-> "merge_insurer_data_into_car_map",
                                     insurer_data_list |-> insurer_data_list,
                                     insurer_key |-> site.insurer_key,
                                     car_data_map |-> car_data_map]
        /\ UNCHANGED <<pureVars, proc>>

NextMerge == MergeInsurerDataIntoCarMap

SpecMerge == InitMerge /\ [][NextMerge]_vars

\* key and entry match in the claim's sense: makes normalize alike, one
\* normalized model contains the other, one variant contains the other when
\* letter case is ignored
SameVehicle(key, entry) ==
    /\ normalize_make_display(key[1]) = normalize_make_display(entry.make)
    /\ \/ StrContains(normalize_model_display(key[2]), normalize_model_display(entry.model))
       \/ StrContains(normalize_model_display(entry.model), normalize_model_display(key[2]))
    /\ \/ StrContains(StrLower(key[3]), StrLower(entry.variant))
       \/ StrContains(StrLower(entry.variant), StrLower(key[3]))

\* C1: a merged entry that matches an existing key (makes normalize alike,
\* normalized models contain one another, variants contain one another when
\* letter case is ignored) is folded into an existing key: the merge creates no
\* new key.
C1_MatchingEntryCreatesNoKey ==
    (last_merge # NoCall /\ Len(last_merge.insurer_data_list) = 1) =>
        ((\E i \in DOMAIN last_merge.car_data_map :
              SameVehicle(last_merge.car_data_map[i].key, last_merge.insurer_data_list[1]))
            => Len(car_data_map) = Len(last_merge.car_data_map))

\* a merge of one entry has been made
MergedOne == last_merge # NoCall /\ Len(last_merge.insurer_data_list) = 1

\* the keys of the map before the merge that the entry matches, as places
MatchedBefore ==
    MatchingKeys(last_merge.car_data_map,
                 normalize_make_model(last_merge.insurer_data_list[1].make,
                                      last_merge.insurer_data_list[1].model),
                 last_merge.insurer_data_list[1].variant)

\* the places of the map that hold a reference to the merged entry's file
PlacesHoldingEntry ==
    {i \in DOMAIN car_data_map :
        \E j \in DOMAIN car_data_map[i].files[last_merge.insurer_key] :
            car_data_map[i].files[last_merge.insurer_key][j].file
                = last_merge.insurer_data_list[1].file}

\* C20: an entry that matches existing keys of the car map has its file
\* reference appended to the earliest-inserted matching key and to no other
\* key; an entry that matches none gets exactly one new key, inserted at the
\* end of the map, and its reference is stored there.
C20_EarliestMatchOrNewLastKey ==
    MergedOne =>
        IF MatchedBefore # {}
        THEN /\ Len(car_data_map) = Len(last_merge.car_data_map)
             /\ \A i \in DOMAIN car_data_map :
                    car_data_map[i].key = last_merge.car_data_map[i].key
             /\ PlacesHoldingEntry = {SetMin(MatchedBefore)}
        ELSE /\ Len(car_data_map) = Len(last_merge.car_data_map) + 1
             /\ SubSeq(car_data_map, 1, Len(last_merge.car_data_map)) = last_merge.car_data_map
             /\ car_data_map[Len(car_data_map)].key =
                    <<last_merge.insurer_data_list[1].make, last_merge.insurer_data_list[1].model,
                      last_merge.insurer_data_list[1].variant>>
             /\ PlacesHoldingEntry = {Len(car_data_map)}

\* an entry merged into a map of which it matches two keys
C20_Witness ==
    /\ MergedOne
    /\ Cardinality(MatchedBefore) >= 2
    /\ PlacesHoldingEntry = {SetMin(MatchedBefore)}

\* a merge has been made
Merged == last_merge # NoCall

\* the list a place of a map holds for an insurer, empty where the map has no such place
RefsAt(map, i, insurer_key) ==
    IF i \in DOMAIN map THEN map[i].files[insurer_key] ELSE <<>>

\* the (place, position) pairs of the map whose reference is to the file
Holders(map, insurer_key, file) ==
    {<<i, j>> \in (DOMAIN map) \X (1..MaxRefs) :
        j \in DOMAIN map[i].files[insurer_key] /\ map[i].files[insurer_key][j].file = file}

\* the place in the merged list of the entry the reference is to
EntryOf(ref) ==
    CHOOSE n \in DOMAIN last_merge.insurer_data_list :
        last_merge.insurer_data_list[n].file = ref.file

\* C21: every entry of a merged list is stored exactly once, under one key, in
\* the list of the insurer_key it was merged with, in input order per key; the
\* merge removes no key, leaves the lists of the other insurers alone and
\* neither changes nor reorders the references stored earlier.
C21_MergeStoresEachEntryOnce ==
    Merged =>
        /\ Len(car_data_map) >= Len(last_merge.car_data_map)
        /\ \A i \in DOMAIN last_merge.car_data_map :
               car_data_map[i].key = last_merge.car_data_map[i].key
        /\ \A i \in DOMAIN car_data_map :
               /\ \A k \in DOMAIN init_car_file_entry \ {last_merge.insurer_key} :
                      car_data_map[i].files[k] = RefsAt(last_merge.car_data_map, i, k)
               /\ LET before == RefsAt(last_merge.car_data_map, i, last_merge.insurer_key)
                      after == car_data_map[i].files[last_merge.insurer_key]
                  IN  /\ Len(after) >= Len(before)
                      /\ SubSeq(after, 1, Len(before)) = before
                      /\ \A p, q \in (Len(before) + 1)..Len(after) :
                             p < q => EntryOf(after[p]) < EntryOf(after[q])
        /\ \A n \in DOMAIN last_merge.insurer_data_list :
               Cardinality(Holders(car_data_map, last_merge.insurer_key,
                                   last_merge.insurer_data_list[n].file)) = 1
        /\ TotalRefs(car_data_map)
               = TotalRefs(last_merge.car_data_map) + Len(last_merge.insurer_data_list)

\* two entries merged under a key that already held a reference of the insurer
C21_Witness ==
    /\ Merged
    /\ Len(last_merge.insurer_data_list) = 2
    /\ \E i \in DOMAIN last_merge.car_data_map :
           /\ Len(last_merge.car_data_map[i].files[last_merge.insurer_key]) = 1
           /\ Len(car_data_map[i].files[last_merge.insurer_key]) = 3

\* the files a map groups under each of its keys
Grouping(map) ==
    { UNION { {map[i].files[k][j].file : j \in DOMAIN map[i].files[k]}
              : k \in DOMAIN init_car_file_entry }
      : i \in DOMAIN map }

\* the ICICI call site of the merge
MergedAsIcici(map, insurer_data_list) ==
    merge_insurer_data_into_car_map(map, insurer_data_list, "icici",
                                    {"file", "registration", "claim_status"}, "none")

\* the orders of n things
Orders(n) == {perm \in [1..n -> 1..n] : \A i, j \in 1..n : i # j => perm[i] # perm[j]}

\* the entries scanned for the vehicles, each with its own file, in the order perm
OrderedEntries(vehicles, perm) ==
    [i \in DOMAIN vehicles |-> ScannedEntry(vehicles[perm[i]], perm[i])]

SameOrder(n) == [i \in 1..n |-> i]




(***************************************************************************)
(* Inputs of build_idv_info: up to MaxSources sources, each a non-dict or  *)
(* a dict holding values under some of the aliases.                        *)
(***************************************************************************)
IdvFieldSets ==
    { {}, {"current_idv"}, {"idv"}, {"min_idv"}, {"idv_min"}, {"current_idv", "idv"} }

IdvValues == {JNull, JStr(<<>>), JNum(0), JStr(<<Rupee, "5">>)}

IdvSourcePool ==
    {JNull, JList(<<>>)}
    \cup UNION { { JDict([a \in IdvAliases |-> IF a \in held THEN f[a] ELSE Absent])
                     : f \in [held -> IdvValues] } : held \in IdvFieldSets }

IdvCalls ==
    { [fn |-> "build_idv_info", sources |-> q] : q \in SeqsUpTo(IdvSourcePool, MaxSources) }

InitIdv ==
    /\ call \in IdvCalls
    /\ ret = NoRet
    /\ MergeIdle
    /\ proc = NoProc

CallBuildIdvInfo ==
    /\ call.fn = "build_idv_info"
    /\ ret = NoRet
    /\ ret' = Ret(build_idv_info(call.sources))
    /\ UNCHANGED <<call, mergeVars, proc>>

NextIdv == CallBuildIdvInfo

SpecIdv == InitIdv /\ [][NextIdv]_vars

(***************************************************************************)
(* Claims about build_idv_info (SpecIdv).                                  *)
(***************************************************************************)
IdvDone == call.fn = "build_idv_info" /\ ret.done

\* the sources, as places, that are dicts holding a value other than None or
\* "" under an alias of the key
IdvSourcesHolding(sources, normalized_key) ==
    {i \in DOMAIN sources :
        /\ sources[i].t = "dict"
        /\ \E j \in DOMAIN field_map[normalized_key] :
               IdvHolds(sources[i].d, field_map[normalized_key][j])}

\* the values the source holds under the aliases of the key, parsed
IdvValuesHeld(source, normalized_key) ==
    {Float(extract_signed_amount(source[field_map[normalized_key][j]])) :
        j \in IdvAliasesHeld(source, field_map[normalized_key])}

\* C14: build_idv_info returns, for each of current, recommended, min, max and
\* selected, a value of the first source in argument order that is a dict and
\* holds a value other than None or "" under one of the key's aliases; the key
\* is left out when no source does; a later source never overrides.
C14_FirstSourceWins ==
    IdvDone =>
        \A k \in DOMAIN field_map :
            IF IdvSourcesHolding(call.sources, k) = {} THEN ret.v[k] = Absent
            ELSE ret.v[k] \in
                     IdvValuesHeld(call.sources[SetMin(IdvSourcesHolding(call.sources, k))].d, k)

\* two dict sources hold a current value: the first one's is returned, the
\* last one holds another
C14_Witness ==
    /\ IdvDone
    /\ Len(call.sources) = MaxSources
    /\ Cardinality(IdvSourcesHolding(call.sources, "current")) >= 2
    /\ ret.v.current = Float(5 * Scale)
    /\ Float(5 * Scale) \notin IdvValuesHeld(call.sources[Len(call.sources)].d, "current")
    /\ ret.v.min = Absent



(***************************************************************************)
(* The model-name normalizers as calls: normalize_model_display on a name, *)
(* split_model_variant on a model name, a separator and a trim written     *)
(* one after the other.                                                    *)
(***************************************************************************)
ModelNames ==
    { <<"N","e","x","o","n">>,
      <<"n","e","x","o","n">>,
      <<"N"," ","e","x","o","n">>,
      <<"I","2","0">>,
      <<"I"," ","2","0">>,
      <<"i"," ","2","0">>,
      <<"S","w","i","f","t">>,
      <<"H","o","n","d","a"," ","C","i","t","y">> }

Separators ==
    { <<>>,
      <<" ">>,
      <<" ","-"," ">>,
      <<":"," ">>,
      <<"-">> }

Trims ==
    { <<>>,
      <<"S","p","o","r","t","z">>,
      <<"X","Z"," ","P","l","u","s">>,
      <<"V","X","I">> }

OtherNames ==
    { <<>>,
      <<" ">>,
      <<" "," ","S","w","i","f","t"," ">>,
      <<"s","w","i","f","t"," ","d","z","i","r","e">>,
      <<"N","E","X","O","N"," ","E","V">>,
      <<"T","a","t","a"," ","N","e","x","o","n">>,
      <<"E","l","i","t","e"," ","i","2","0">>,
      <<"2","0">> }

ModelDisplayCalls ==
    { [fn |-> "normalize_model_display", model |-> m] : m \in ModelNames \cup OtherNames }

SplitCalls ==
    { [fn |-> "split_model_variant", model_variant |-> m \o sep \o trim,
       model |-> m, separator |-> sep, trim |-> trim]
        : m \in ModelNames, sep \in Separators, trim \in Trims }
    \cup { [fn |-> "split_model_variant", model_variant |-> <<>>,
            model |-> <<>>, separator |-> <<>>, trim |-> <<>>] }

InitNames ==
    /\ call \in ModelDisplayCalls \cup SplitCalls
    /\ ret = NoRet
    /\ MergeIdle
    /\ proc = NoProc

CallNormalizeModelDisplay ==
    /\ call.fn = "normalize_model_display"
    /\ ret = NoRet
    /\ ret' = Ret(normalize_model_display(call.model))
    /\ UNCHANGED <<call, mergeVars, proc>>

CallSplitModelVariant ==
    /\ call.fn = "split_model_variant"
    /\ ret = NoRet
    /\ ret' = Ret(split_model_variant(call.model_variant))
    /\ UNCHANGED <<call, mergeVars, proc>>

NextNames == CallNormalizeModelDisplay \/ CallSplitModelVariant

SpecNames == InitNames /\ [][NextNames]_vars

(***************************************************************************)
(* Claims about the model-name normalizers (SpecNames).                    *)
(***************************************************************************)
ModelDisplayDone == call.fn = "normalize_model_display" /\ ret.done
SplitDone == call.fn = "split_model_variant" /\ ret.done

\* C16: normalize_model_display returns "Nexon" for every input containing
\* "nexon" in any case, returns "I20" only for inputs that contain "i20" or
\* "i 20", and for every other input returns the trimmed input in title case
\* (the empty input gives "").
C16_ModelDisplayBySubstring ==
    ModelDisplayDone =>
        LET model_lower == StrLower(call.model)
        IN  ret.v =
              IF StrContains(<<"n","e","x","o","n">>, model_lower) THEN <<"N","e","x","o","n">>
              ELSE IF StrContains(<<"i","2","0">>, model_lower) \/ StrContains(<<"i"," ","2","0">>, model_lower) THEN <<"I","2","0">>
              ELSE StrTitle(StrStrip(call.model))

\* C17: for a model name, optional separator punctuation and a trim written one
\* after the other, split_model_variant returns the normalized model and, as
\* variant, the remainder with the model prefix and the separator removed; the
\* empty input gives ("", "").
C17_SplitRemovesModelPrefix ==
    SplitDone =>
        ret.v = IF call.model_variant = <<>> THEN << <<>>, <<>> >>
                ELSE <<normalize_model_display(call.model), StrStrip(call.trim)>>


(***************************************************************************)
(* scan_all_car_data.  The extracted directory is a sequence of files in   *)
(* the order the globs yield them; a file is [dir, stem, data], data being *)
(* the JSON document load_json_data returns or Unreadable when it raises.  *)
(***************************************************************************)
s_acko == <<"a","c","k","o">>
s_icici == <<"i","c","i","c","i">>
s_cholams == <<"c","h","o","l","a","m","s">>
s_royal_sundaram == <<"r","o","y","a","l","_","s","u","n","d","a","r","a","m">>
s_godigit == <<"g","o","d","i","g","i","t">>

Unreadable == [t |-> "unreadable"]

\* the value of an expression that raises AttributeError
Bad == [t |-> "error"]

\* str(file) for extracted_dir / dir / (stem + ".json")
FilePath(file) == <<"e","x","t","r","a","c","t","e","d","/">> \o file.dir \o <<"/">> \o file.stem \o s_json

\* obj.get(key, default), raising when obj is not a dict
DictGet(obj, key, default) ==
    IF obj.t = "dict" THEN Get(obj.d, key, default) ELSE Bad

\* obj.get(key, {}) or {}
DictGetOrEmpty(obj, key) ==
    IF obj.t = "dict" THEN PyOr(Get(obj.d, key, EmptyDict), EmptyDict) ELSE Bad

\* v.strip(), raising when v is not a str
Stripped(v) == IF v.t = "str" THEN JStr(StrStrip(v.s)) ELSE Bad

\* obj.get(key, "").strip()
StrippedField(obj, key) == Stripped(DictGet(obj, key, JStr(<<>>)))

\* str(v) of a JSON value
PyStr(v) ==
    IF v.t = "str" THEN v
    ELSE IF v.t = "null" THEN JStr(<<"N","o","n","e">>)
    ELSE IF v.t = "num" THEN JStr(IntToStr(v.n))
    ELSE Bad

\* str(obj.get(key, "")).strip()
StrOfField(obj, key) == Stripped(PyStr(DictGet(obj, key, JStr(<<>>))))

\* what the loop body does with one file: it raises, passes on, or has an entry
Raises == [kind |-> "raise"]
Passes == [kind |-> "pass"]
Entry(make, model, variant, file, claim_status, registration) ==
    [kind |-> "entry",
     entry |-> [make |-> make, model |-> model, variant |-> variant,
                file |-> JStr(FilePath(file)), claim_status |-> JStr(claim_status),
                registration |-> registration]]

\* file.stem.split("-")[0] if "-" in file.stem else ""
StemRegistration(stem) ==
    IF StrContains(<<"-">>, stem)
    THEN SubSeq(stem, 1, SetMin({i \in DOMAIN stem : stem[i] = "-"}) - 1)
    ELSE <<>>

\* claim_status or "not_claimed"
AckoClaimStatus(claim_status) == IF claim_status # <<>> THEN claim_status ELSE s_not_claimed

AckoEntry(file, car_info, make_raw, model_raw, variant_raw) ==
    IF Bad \in {car_info, make_raw, model_raw, variant_raw} THEN Raises
    ELSE IF /\ normalize_make_display(make_raw.s) # <<>>
            /\ normalize_model_display(model_raw.s) # <<>>
            /\ split_model_variant(variant_raw.s)[2] # <<>>
    THEN Entry(normalize_make_display(make_raw.s), normalize_model_display(model_raw.s),
               split_model_variant(variant_raw.s)[2], file,
               AckoClaimStatus(infer_claim_status_from_filename(FilePath(file))),
               Get(car_info.d, "registration_number", JStr(<<>>)))
    ELSE Passes

ScanAckoFile(file, car_info) ==
    AckoEntry(file, car_info, StrippedField(car_info, "vehicle_make"),
              StrippedField(car_info, "vehicle_model"),
              StrippedField(car_info, "vehicle_variant"))

IciciEntry(file, make_raw, model_raw) ==
    IF Bad \in {make_raw, model_raw} THEN Raises
    ELSE IF /\ normalize_make_display(make_raw.s) # <<>>
            /\ normalize_model_display(model_raw.s) # <<>>
    THEN Entry(normalize_make_display(make_raw.s), normalize_model_display(model_raw.s),
               split_model_variant(model_raw.s)[2], file,
               infer_claim_status_from_filename(FilePath(file)),
               JStr(StemRegistration(file.stem)))
    ELSE Passes

ScanIciciFile(file) ==
    IciciEntry(file, StrippedField(file.data, "manufacturer"),
               StrippedField(file.data, "model"))

CholamsEntry(file, car_info, make_raw, model_raw, variant_raw) ==
    IF Bad \in {make_raw, model_raw, variant_raw} THEN Raises
    ELSE IF /\ normalize_make_display(make_raw.s) # <<>>
            /\ normalize_model_display(model_raw.s) # <<>>
    THEN Entry(normalize_make_display(make_raw.s), normalize_model_display(model_raw.s),
               split_model_variant(variant_raw.s)[2], file,
               infer_claim_status_from_filename(FilePath(file)),
               Get(car_info.d, "registration_number", JStr(<<>>)))
    ELSE Passes

CholamsCarInfo(data) == IF data.l[1].t = "dict" THEN data.l[1] ELSE EmptyDict

ScanCholamsFile(file) ==
    IF file.data.t = "list" /\ Len(file.data.l) > 0
    THEN CholamsEntry(file, CholamsCarInfo(file.data),
                      StrippedField(CholamsCarInfo(file.data), "make"),
                      StrippedField(CholamsCarInfo(file.data), "model"),
                      StrippedField(CholamsCarInfo(file.data), "variant"))
    ELSE Passes

RoyalSundaramEntry(file, car_details, make_raw, model_variant_raw) ==
    IF Bad \in {car_details, make_raw, model_variant_raw} THEN Raises
    ELSE IF /\ normalize_make_display(make_raw.s) # <<>>
            /\ normalize_model_display(split_model_variant(model_variant_raw.s)[1]) # <<>>
    THEN Entry(normalize_make_display(make_raw.s),
               normalize_model_display(split_model_variant(model_variant_raw.s)[1]),
               split_model_variant(model_variant_raw.s)[2], file,
               infer_claim_status_from_filename(FilePath(file)),
               Get(car_details.d, "registration_number", JStr(<<>>)))
    ELSE Passes

ScanRoyalSundaramFile(file, car_details) ==
    RoyalSundaramEntry(file, car_details, StrippedField(car_details, "manufacturer"),
                       StrippedField(car_details, "model_variant"))

GoDigitEntry(file, car_info, make_raw, model_raw, variant_raw) ==
    IF Bad \in {car_info, make_raw, model_raw, variant_raw} THEN Raises
    ELSE IF /\ normalize_make_display(make_raw.s) # <<>>
            /\ normalize_model_display(model_raw.s) # <<>>
    THEN Entry(normalize_make_display(make_raw.s), normalize_model_display(model_raw.s),
               variant_raw.s, file,
               infer_claim_status_from_filename(FilePath(file)),
               Get(car_info.d, "registration_number", JStr(<<>>)))
    ELSE Passes

ScanGoDigitFile(file, car_info) ==
    GoDigitEntry(file, car_info, StrOfField(car_info, "vehicle_make"),
                 StrOfField(car_info, "vehicle_model"),
                 StrOfField(car_info, "vehicle_variant"))

\* the loop body of the file's directory; load_json_data raising is `continue`
ScanFile(file) ==
    IF file.data = Unreadable THEN Passes
    ELSE CASE file.dir = s_acko -> ScanAckoFile(file, DictGet(file.data, "car_info", EmptyDict))
           [] file.dir = s_icici -> ScanIciciFile(file)
           [] file.dir = s_cholams -> ScanCholamsFile(file)
           [] file.dir = s_royal_sundaram ->
                  ScanRoyalSundaramFile(file, DictGetOrEmpty(file.data, "car_details"))
           [] file.dir = s_godigit -> ScanGoDigitFile(file, DictGetOrEmpty(file.data, "car_info"))

\* the entries of the files of one directory, in glob order
EntriesOf(extracted, dir) ==
    LET kept == SelectSeq(extracted, LAMBDA file : file.dir = dir /\ ScanFile(file).kind = "entry")
    IN  [i \in DOMAIN kept |-> ScanFile(kept[i]).entry]

\* the Acko loop stores each entry under its own key
RECURSIVE SeedAcko(_, _)
SeedAcko(map, entries) ==
    IF entries = <<>> THEN map
    ELSE SeedAcko(StoreEntry(map, {},
                             <<Head(entries).make, Head(entries).model, Head(entries).variant>>,
                             "acko",
                             DataDict(Head(entries), {"file", "claim_status", "registration"},
                                      "none")),
                  Tail(entries))

AllFields == {"file", "registration", "claim_status"}

\* the four merges of lines 1093-1120, in their order
MergeLists(map, icici_data_list, cholams_data_list, royal_sundaram_data_list, godigit_data_list) ==
    merge_insurer_data_into_car_map(
        merge_insurer_data_into_car_map(
            merge_insurer_data_into_car_map(
                merge_insurer_data_into_car_map(map, icici_data_list, "icici", AllFields, "none"),
                cholams_data_list, "cholams", AllFields, "none"),
            royal_sundaram_data_list, "royal_sundaram", {"file", "registration"},
            "normalize_claim_status"),
        godigit_data_list, "godigit", AllFields, "none")

scan_all_car_data(extracted) ==
    IF \E i \in DOMAIN extracted : ScanFile(extracted[i]) = Raises
    THEN Raised("AttributeError")
    ELSE Ret(MergeLists(SeedAcko(<<>>, EntriesOf(extracted, s_acko)),
                        EntriesOf(extracted, s_icici), EntriesOf(extracted, s_cholams),
                        EntriesOf(extracted, s_royal_sundaram),
                        EntriesOf(extracted, s_godigit)))

(***************************************************************************)
(* Scans of a directory of at most MaxFiles files.                         *)
(***************************************************************************)
MaxFiles == 2

AckoFiles ==
    { JDict([car_info |-> JDict([vehicle_make |-> JStr(<<"t","a","t","a">>), vehicle_model |-> JStr(<<"n","e","x","o","n">>), vehicle_variant |-> JStr(<<"X","Z"," ","P","l","u","s">>), registration_number |-> JStr(<<"M","H","1","2">>)])]),
      JDict([car_info |-> JDict([vehicle_make |-> JStr(<<"T","a","t","a">>), vehicle_model |-> JStr(<<"N","e","x","o","n">>), vehicle_variant |-> Absent, registration_number |-> Absent])]),
      JDict([car_info |-> JNull]) }

IciciFiles ==
    { JDict([manufacturer |-> JStr(<<"H","y","u","n","d","a","i">>), model |-> JStr(<<"I"," ","2","0"," ","S","p","o","r","t","z">>)]),
      JDict([manufacturer |-> Absent, model |-> JStr(<<"I","2","0">>)]),
      JDict([manufacturer |-> JNull, model |-> JStr(<<"I","2","0">>)]) }

CholamsFiles ==
    { JList(<<JDict([make |-> JStr(<<"M","a","r","u","t","i">>), model |-> JStr(<<"S","w","i","f","t">>), variant |-> JStr(<<"S","w","i","f","t"," ","V","X","I">>), registration_number |-> JStr(<<"K","A","0","1">>)])>>),
      JList(<<>>),
      JList(<<JDict([make |-> JStr(<<"M","a","r","u","t","i">>), model |-> JStr(<<"S","w","i","f","t">>), variant |-> JNull, registration_number |-> Absent])>>) }

RoyalSundaramFiles ==
    { JDict([car_details |-> JDict([manufacturer |-> JStr(<<"T","a","t","a"," ","M","o","t","o","r","s">>), model_variant |-> JStr(<<"N","e","x","o","n"," ","-"," ","X","Z"," ","P","l","u","s">>), registration_number |-> Absent])]),
      JDict([car_details |-> JNull]),
      JList(<<>>) }

GoDigitFiles ==
    { JDict([car_info |-> JDict([vehicle_make |-> JStr(<<"T","a","t","a">>), vehicle_model |-> JStr(<<"N","e","x","o","n">>), vehicle_variant |-> JStr(<<"X","Z">>), registration_number |-> Absent])]),
      JDict([car_info |-> JDict([vehicle_make |-> JStr(<<"T","a","t","a">>), vehicle_model |-> JNull, vehicle_variant |-> JNum(5), registration_number |-> Absent])]),
      EmptyDict }

FileStems == { <<"M","H","1","2","-","c","l","a","i","m","e","d">>, <<"K","A","0","1">> }

DataOf(dir) ==
    {Unreadable} \cup
    CASE dir = s_acko -> AckoFiles
      [] dir = s_icici -> IciciFiles
      [] dir = s_cholams -> CholamsFiles
      [] dir = s_royal_sundaram -> RoyalSundaramFiles
      [] dir = s_godigit -> GoDigitFiles

InsurerDirs == {s_acko, s_icici, s_cholams, s_royal_sundaram, s_godigit}

FilePool ==
    UNION { { [dir |-> dir, stem |-> stem, data |-> data] : stem \in FileStems, data \in DataOf(dir) }
            : dir \in InsurerDirs }

\* directories of distinct files
ExtractedDirs ==
    { extracted \in UNION { [1..n -> FilePool] : n \in 0..MaxFiles } :
        \A i, j \in DOMAIN extracted :
            i # j => FilePath(extracted[i]) # FilePath(extracted[j]) }

InitScan ==
    /\ call \in { [fn |-> "scan_all_car_data", extracted |-> e] : e \in ExtractedDirs }
    /\ ret = NoRet
    /\ MergeIdle
    /\ proc = NoProc

CallScanAllCarData ==
    /\ call.fn = "scan_all_car_data"
    /\ ret = NoRet
    /\ ret' = scan_all_car_data(call.extracted)
    /\ UNCHANGED <<call, mergeVars, proc>>

NextScan == CallScanAllCarData

SpecScan == InitScan /\ [][NextScan]_vars

(***************************************************************************)
(* Claims about the scan (SpecScan).                                       *)
(***************************************************************************)
ScanDone == call.fn = "scan_all_car_data" /\ ret.done

\* the text a document holds at a place, "" when it holds none
TextAt(obj, key) ==
    IF obj.t = "dict" /\ Get(obj.d, key, JNull).t = "str"
    THEN StrStrip(Get(obj.d, key, JNull).s) ELSE <<>>

ChildAt(obj, key) == IF obj.t = "dict" THEN Get(obj.d, key, JNull) ELSE JNull

\* the file is readable and names a make and a model where its insurer's
\* schema keeps them
NamesMakeAndModel(file) ==
    /\ file.data # Unreadable
    /\ CASE file.dir = s_acko ->
                /\ TextAt(ChildAt(file.data, "car_info"), "vehicle_make") # <<>>
                /\ TextAt(ChildAt(file.data, "car_info"), "vehicle_model") # <<>>
         [] file.dir = s_icici ->
                TextAt(file.data, "manufacturer") # <<>> /\ TextAt(file.data, "model") # <<>>
         [] file.dir = s_cholams ->
                /\ file.data.t = "list" /\ Len(file.data.l) > 0
                /\ TextAt(file.data.l[1], "make") # <<>>
                /\ TextAt(file.data.l[1], "model") # <<>>
         [] file.dir = s_royal_sundaram ->
                /\ TextAt(ChildAt(file.data, "car_details"), "manufacturer") # <<>>
                /\ TextAt(ChildAt(file.data, "car_details"), "model_variant") # <<>>
         [] file.dir = s_godigit ->
                /\ TextAt(ChildAt(file.data, "car_info"), "vehicle_make") # <<>>
                /\ TextAt(ChildAt(file.data, "car_info"), "vehicle_model") # <<>>

\* the references a key of the map holds for the directory of a file
RefsOfDir(files, dir) ==
    CASE dir = s_acko -> files.acko
      [] dir = s_icici -> files.icici
      [] dir = s_cholams -> files.cholams
      [] dir = s_royal_sundaram -> files.royal_sundaram
      [] dir = s_godigit -> files.godigit

\* the map holds a reference to the file under its insurer
FileInMap(map, file) ==
    \E i \in DOMAIN map :
        \E j \in DOMAIN RefsOfDir(map[i].files, file.dir) :
            RefsOfDir(map[i].files, file.dir)[j].file = JStr(FilePath(file))

\* C13: an unreadable file does not stop the scan, and every readable file
\* that names a make and a model is in the car map the scan returns.
C13_ReadableFilesAppear ==
    ScanDone =>
        \A i \in DOMAIN call.extracted :
            NamesMakeAndModel(call.extracted[i]) =>
                Returned /\ FileInMap(ret.v, call.extracted[i])

\* the key the scan makes of a file that has an entry
OwnKey(file) ==
    <<ScanFile(file).entry.make, ScanFile(file).entry.model, ScanFile(file).entry.variant>>

\* the map holds a reference to the file under the file's own key
FileUnderOwnKey(map, file) ==
    \E i \in DOMAIN map :
        /\ map[i].key = OwnKey(file)
        /\ \E j \in DOMAIN RefsOfDir(map[i].files, file.dir) :
               RefsOfDir(map[i].files, file.dir)[j].file = JStr(FilePath(file))

\* C23: Acko and GoDigit files seed the car map directly, each under its own
\* (make, model, variant) key, before any merge: whatever the other files,
\* the returned map holds each of them under the key made of its own names.
C23_AckoAndGoDigitUnderOwnKey ==
    (ScanDone /\ Returned) =>
        \A i \in DOMAIN call.extracted :
            (/\ call.extracted[i].dir \in {s_acko, s_godigit}
             /\ ScanFile(call.extracted[i]).kind = "entry")
                => FileUnderOwnKey(ret.v, call.extracted[i])


(***************************************************************************)
(* plans_to_dataframe (overview.py).  all_plans_by_insurer is an           *)
(* insertion-ordered dict: a sequence of [insurer, plans] with distinct    *)
(* insurers; the DataFrame is the sequence of its rows.                    *)
(***************************************************************************)
\* plan.get("pricing_breakdown", {}) or {}
RowPricing(plan) == PyOr(Get(plan, "pricing_breakdown", EmptyDict), EmptyDict).d

PricingColumn(plan, column) == Get(RowPricing(plan), column, JNull)

PlanRow(insurer, plan) ==
    [insurer |-> insurer,
     plan_id |-> Get(plan, "plan_id", JStr(<<>>)),
     plan_name |-> Get(plan, "plan_name", JStr(<<>>)),
     plan_type |-> PyOr(Get(plan, "category_display", JNull), Get(plan, "category", JStr(<<>>))),
     premium_value |-> Get(plan, "premium_value", JNum(0)),
     claim_status |-> Get(plan, "claim_status", JStr(<<>>)),
     base_premium |-> PricingColumn(plan, "base_premium"),
     own_damage_premium |-> PricingColumn(plan, "own_damage_premium"),
     third_party_premium |-> PricingColumn(plan, "third_party_premium"),
     addons_total |-> PricingColumn(plan, "addons_total"),
     discounts_total |-> PricingColumn(plan, "discounts_total"),
     gst_amount |-> PricingColumn(plan, "gst_amount"),
     gst_rate |-> PricingColumn(plan, "gst_rate"),
     net_premium |-> PricingColumn(plan, "net_premium"),
     total_premium |-> PricingColumn(plan, "total_premium")]

\* the variant that leaves out a plan equal to the one before it
PlanRows_skip_repeated(insurer, plans) ==
    LET kept == {j \in DOMAIN plans : j = 1 \/ plans[j] # plans[j - 1]}
    IN  [k \in 1..Cardinality(kept) |->
            PlanRow(insurer, plans[CHOOSE j \in kept : Cardinality({i \in kept : i <= j}) = k])]

\* the inner loop: one row appended per plan
PlanRows(insurer, plans) == [j \in DOMAIN plans |-> PlanRow(insurer, plans[j])]

RECURSIVE plans_to_dataframe(_)
plans_to_dataframe(all_plans_by_insurer) ==
    IF all_plans_by_insurer = <<>> THEN <<>>
    ELSE PlanRows(Head(all_plans_by_insurer).insurer, Head(all_plans_by_insurer).plans)
         \o plans_to_dataframe(Tail(all_plans_by_insurer))

(***************************************************************************)
(* The plan lists of at most MaxInsurers insurers, as homepage() builds    *)
(* them: each list is what a plan extractor returned.                      *)
(***************************************************************************)
MaxInsurers == 2

InsurerNames == { <<"A","c","k","o">>, <<"I","C","I","C","I">>, <<"G","o"," ","D","i","g","i","t">> }

ExtractedPlans ==
    { [plan_id |-> JStr(<<"a","c","k","o","_","0">>), plan_name |-> JStr(<<"Z","e","r","o"," ","D","e","p">>),
       category |-> JStr(<<"c","o","m","p">>), category_display |-> JStr(<<"C","o","m","p","r","e","h","e","n","s","i","v","e">>),
       premium_value |-> JNum(5142), claim_status |-> JStr(s_claimed),
       pricing_breakdown |-> JDict([finalize_pricing_breakdown(init_pricing_template) EXCEPT
                                       !.total_premium = Float(5142 * Scale)])],
      [plan_id |-> JStr(<<"t","p","_","1">>), plan_name |-> JStr(<<"T","h","i","r","d"," ","P","a","r","t","y">>),
       category |-> JStr(<<"t","p">>), category_display |-> Absent,
       premium_value |-> Float(0), claim_status |-> JStr(<<>>),
       pricing_breakdown |-> JNull] }

PlanLists == UNION { [1..n -> ExtractedPlans] : n \in 0..MaxPlans }

PlansByInsurer ==
    { by \in UNION { [1..n -> [insurer : InsurerNames, plans : PlanLists]] : n \in 0..MaxInsurers } :
        \A i, j \in DOMAIN by : i # j => by[i].insurer # by[j].insurer }

InitDataframe ==
    /\ call \in { [fn |-> "plans_to_dataframe", all_plans_by_insurer |-> by] : by \in PlansByInsurer }
    /\ ret = NoRet
    /\ MergeIdle
    /\ proc = NoProc

CallPlansToDataframe ==
    /\ call.fn = "plans_to_dataframe"
    /\ ret = NoRet
    /\ ret' = Ret(plans_to_dataframe(call.all_plans_by_insurer))
    /\ UNCHANGED <<call, mergeVars, proc>>

NextDataframe == CallPlansToDataframe

SpecDataframe == InitDataframe /\ [][NextDataframe]_vars

(***************************************************************************)
(* Claims about the flat table (SpecDataframe).                            *)
(***************************************************************************)
DataframeDone == call.fn = "plans_to_dataframe" /\ ret.done

RECURSIVE PlansBefore(_, _)
\* the number of plans of the first n insurers
PlansBefore(by, n) == IF n = 0 THEN 0 ELSE PlansBefore(by, n - 1) + Len(by[n].plans)

\* C18: plans_to_dataframe emits exactly one row per plan: as many rows as
\* plans over all insurers, in insurer order then plan order, each row
\* holding its plan's id and name and, as insurer, the key the plan came under.
C18_OneRowPerPlan ==
    DataframeDone =>
        LET by == call.all_plans_by_insurer
        IN  /\ Len(ret.v) = PlansBefore(by, Len(by))
            /\ \A i \in DOMAIN by : \A j \in DOMAIN by[i].plans :
                   /\ ret.v[PlansBefore(by, i - 1) + j].insurer = by[i].insurer
                   /\ ret.v[PlansBefore(by, i - 1) + j].plan_id = by[i].plans[j].plan_id
                   /\ ret.v[PlansBefore(by, i - 1) + j].plan_name = by[i].plans[j].plan_name
                   /\ ret.v[PlansBefore(by, i - 1) + j].premium_value = by[i].plans[j].premium_value

\* two insurers, the first with the same plan twice: three rows
C18_Witness ==
    /\ DataframeDone
    /\ Len(call.all_plans_by_insurer) = 2
    /\ Len(call.all_plans_by_insurer[1].plans) = 2
    /\ call.all_plans_by_insurer[1].plans[1] = call.all_plans_by_insurer[1].plans[2]
    /\ Len(call.all_plans_by_insurer[2].plans) = 1
    /\ Len(ret.v) = 3
    /\ ret.v[3].insurer = call.all_plans_by_insurer[2].insurer


(***************************************************************************)
(* The same entries merged in two orders: as listed and as perm orders     *)
(* them.  An entry keeps its file whatever its place.                      *)
(***************************************************************************)
MaxOrdered == 3

OrderVehicles ==
    { [make |-> <<"M","a","r","u","t","i">>, model |-> <<"S","w","i","f","t">>, variant |-> <<"V","X","I">>],
      [make |-> <<"M","a","r","u","t","i">>, model |-> <<"S","w","i","f","t"," ","D","z","i","r","e">>, variant |-> <<"A","M","T">>],
      [make |-> <<"M","a","r","u","t","i"," ","S","u","z","u","k","i">>, model |-> <<"S","w","i","f","t">>, variant |-> <<"V","X","I"," ","A","M","T">>] }

OrderCalls ==
    UNION { { [fn |-> "merge_insurer_data_into_car_map", vehicles |-> vehicles, perm |-> perm]
                : vehicles \in [1..n -> OrderVehicles], perm \in Orders(n) }
            : n \in 1..MaxOrdered }

InitOrder ==
    /\ call \in OrderCalls
    /\ ret = NoRet
    /\ MergeIdle
    /\ proc = NoProc

CallMergeInBothOrders ==
    /\ call.fn = "merge_insurer_data_into_car_map"
    /\ ret = NoRet
    /\ ret' = Ret([listed |->
                       Grouping(MergedAsIcici(<<>>,
                           OrderedEntries(call.vehicles, SameOrder(Len(call.vehicles))))),
                   permuted |->
                       Grouping(MergedAsIcici(<<>>, OrderedEntries(call.vehicles, call.perm)))])
    /\ UNCHANGED <<call, mergeVars, proc>>

NextOrder == CallMergeInBothOrders

SpecOrder == InitOrder /\ [][NextOrder]_vars

(***************************************************************************)
(* Claims about the order of merging (SpecOrder).                          *)
(***************************************************************************)
\* the variants "VXI", "AMT" and "VXI AMT", the third merged first in the other order
VxiAmtExample ==
    /\ call.fn = "merge_insurer_data_into_car_map" /\ ret.done
    /\ call.vehicles = << [make |-> <<"M","a","r","u","t","i">>, model |-> <<"S","w","i","f","t">>, variant |-> <<"V","X","I">>],
                          [make |-> <<"M","a","r","u","t","i">>, model |-> <<"S","w","i","f","t"," ","D","z","i","r","e">>, variant |-> <<"A","M","T">>],
                          [make |-> <<"M","a","r","u","t","i"," ","S","u","z","u","k","i">>, model |-> <<"S","w","i","f","t">>, variant |-> <<"V","X","I"," ","A","M","T">>] >>
    /\ call.perm = <<3, 1, 2>>

\* C22: the grouping depends on merge order: the entries with variants "VXI",
\* "AMT" and "VXI AMT" are partitioned into vehicle keys differently when the
\* third is merged first.
C22_GroupingDependsOnOrder == VxiAmtExample => ret.v.listed # ret.v.permuted

\* as listed the third entry joins the first key; merged first it takes all three
C22_Witness ==
    /\ VxiAmtExample
    /\ ret.v.listed = { {JStr(<<"f","1">>), JStr(<<"f","3">>)}, {JStr(<<"f","2">>)} }
    /\ ret.v.permuted = { {JStr(<<"f","1">>), JStr(<<"f","2">>), JStr(<<"f","3">>)} }


(***************************************************************************)
(* get_godigit_plans on documents whose plans carry idv blocks: up to      *)
(* MaxPlans plans, each with an idv block that is missing, None, not a     *)
(* dict, or a dict holding values under some of the aliases.               *)
(***************************************************************************)
GoDigitIdvPlanNames ==
    << <<"C","o","m","p","r","e","h","e","n","s","i","v","e"," ","P","o","l","i","c","y">>,
       <<"T","h","i","r","d"," ","P","a","r","t","y"," ","P","o","l","i","c","y">>,
       <<"P","a","y"," ","A","s"," ","Y","o","u"," ","D","r","i","v","e">>,
       <<"O","w","n"," ","D","a","m","a","g","e"," ","P","o","l","i","c","y">> >>

GoDigitIdvFieldSets ==
    { {}, {"current_idv"}, {"min_idv"}, {"idv_min", "max_idv"},
      {"idv", "recommended_idv"}, {"idv_selected"} }

GoDigitIdvValues == {JStr(<<>>), JNum(500000), JStr(<<Rupee, "4", ",", "5", "0", ",", "0", "0", "0">>)}

GoDigitIdvBlocks ==
    {Absent, JNull, JStr(<<"n", "/", "a">>)}
    \cup UNION { { JDict([a \in IdvAliases |-> IF a \in held THEN
                              (IF a \in {"min_idv", "idv_min"} THEN JNum(400000) ELSE v)
                          ELSE Absent])
                     : v \in GoDigitIdvValues } : held \in GoDigitIdvFieldSets }

GoDigitIdvDocuments ==
    { JDict([plans_offered |->
          JList([i \in DOMAIN blocks |->
              JDict(<<[name |-> GoDigitIdvPlanNames[i],
                       value |-> JDict([premium_breakup |-> JDict([final_premium |-> JNum(1180)]),
                                        idv |-> blocks[i]])]>>)])])
        : blocks \in SeqsUpTo(GoDigitIdvBlocks, MaxPlans) }

InitGoDigitIdv ==
    /\ call \in {[fn |-> "get_godigit_plans", data |-> d, claim_status |-> JStr(<<>>)] :
                    d \in GoDigitIdvDocuments}
    /\ ret = NoRet
    /\ MergeIdle
    /\ proc = NoProc

NextGoDigitIdv == CallGetGoDigitPlans

SpecGoDigitIdv == InitGoDigitIdv /\ [][NextGoDigitIdv]_vars

(***************************************************************************)
(* Claims about the idv mapping of the Go Digit plans (SpecGoDigitIdv).    *)
(***************************************************************************)
GoDigitIdvDone == call.fn = "get_godigit_plans" /\ ret.done /\ ~HasRaised(ret)

\* the plan items of the document of the call
CalledItems == GoDigitItems(call.data.d.plans_offered.l)

\* the plan's own idv block holds a value under an alias of the key
OwnIdvHolds(i, k) ==
    /\ GoDigitIdvBlock(CalledItems[i].value).t = "dict"
    /\ IdvAliasesHeld(GoDigitIdvBlock(CalledItems[i].value).d, field_map[k]) # {}

\* C26: in get_godigit_plans a plan whose own idv block lacks an IDV field
\* that the idv block of another plan of the document supplies still gets the
\* field in its idv mapping, taken from the shared IDV info; the plan's own
\* values take precedence over the shared ones.
C26_SharedIdvFillsMissingFields ==
    GoDigitIdvDone =>
        \A i \in DOMAIN ret.v : \A k \in DOMAIN field_map :
            IF OwnIdvHolds(i, k)
            THEN ret.v[i].idv[k] \in IdvValuesHeld(GoDigitIdvBlock(CalledItems[i].value).d, k)
            ELSE (\E j \in DOMAIN ret.v : j # i /\ OwnIdvHolds(j, k)) =>
                     /\ ret.v[i].idv[k] # Absent
                     /\ ret.v[i].idv[k] = GoDigitSharedIdvInfo(call.data.d.plans_offered.l)[k]


(***************************************************************************)
(* overview.apply_sidebar_filters.  A plan is a record; the values the     *)
(* sidebar widgets return are part of the call: the label of the plan-type *)
(* selectbox, the set of the insurers multiselect, the option of the       *)
(* claim-status radio and the pair of the price slider (whole rupees),     *)
(* each one a value the widget offers.                                     *)
(***************************************************************************)
MaxShown == 2

s_all_plan_types == <<"A","l","l"," ","P","l","a","n"," ","T","y","p","e","s">>
s_both == <<"B","o","t","h">>
s_opt_not_claimed == <<"N","o","t"," ","C","l","a","i","m","e","d">>
s_opt_claimed == <<"C","l","a","i","m","e","d">>

\* the characters of the category keys in code-point order
CodePointOrder == <<" ","-","0","1","2","3","4","5","6","7","8","9","A","B","C","D","E","F","G","H","I","J","K","L","M","N","O","P","Q","R","S","T","U","V","W","X","Y","Z","_","a","b","c","d","e","f","g","h","i","j","k","l","m","n","o","p","q","r","s","t","u","v","w","x","y","z">>

CodePoint(c) == CHOOSE i \in DOMAIN CodePointOrder : CodePointOrder[i] = c

\* a < b for str values
RECURSIVE StrLess(_, _)
StrLess(a, b) ==
    IF b = <<>> THEN FALSE
    ELSE IF a = <<>> THEN TRUE
    ELSE IF Head(a) # Head(b) THEN CodePoint(Head(a)) < CodePoint(Head(b))
    ELSE StrLess(Tail(a), Tail(b))

\* sorted(set(...)) of str values
RECURSIVE SortedStrs(_)
SortedStrs(S) ==
    IF S = {} THEN <<>>
    ELSE LET least == CHOOSE x \in S : \A y \in S \ {x} : StrLess(x, y)
         IN  <<least>> \o SortedStrs(S \ {least})

PLAN_CATEGORY_LABELS(category_key) ==
    IF category_key = s_comp THEN <<"C","o","m","p","r","e","h","e","n","s","i","v","e">>
    ELSE IF category_key = s_od THEN <<"O","w","n"," ","D","a","m","a","g","e">>
    ELSE IF category_key = s_tp THEN <<"T","h","i","r","d"," ","P","a","r","t","y">>
    ELSE IF category_key = s_zd THEN <<"Z","e","r","o"," ","D","e","p","r","e","c","i","a","t","i","o","n">>
    ELSE StrTitle(StrReplaceChar(category_key, "_", " "))

get_plan_category_label(category_key, fallback) ==
    IF category_key = <<>> THEN fallback ELSE PLAN_CATEGORY_LABELS(category_key)

\* plan.get("category", "") where it is truthy, over the plans
available_categories(all_plans) ==
    SortedStrs({Get(all_plans[i], "category", JStr(<<>>)).s :
                   i \in {j \in DOMAIN all_plans :
                             Truthy(Get(all_plans[j], "category", JStr(<<>>)))}})

category_options(all_plans) ==
    <<s_all_plan_types>>
    \o [i \in DOMAIN available_categories(all_plans) |->
           get_plan_category_label(available_categories(all_plans)[i], <<>>)]

\* the category key of the selected label: the first available one with it
selected_category(all_plans, selected_category_label) ==
    LET cats == available_categories(all_plans)
        found == {i \in DOMAIN cats :
                     get_plan_category_label(cats[i], <<>>) = selected_category_label}
    IN  IF selected_category_label = s_all_plan_types \/ found = {} THEN <<>>
        ELSE cats[SetMin(found)]

FilterByType(all_plans, selected_category_label) ==
    IF selected_category(all_plans, selected_category_label) = <<>> THEN all_plans
    ELSE SelectSeq(all_plans,
             LAMBDA p : Get(p, "category", JNull) =
                            JStr(selected_category(all_plans, selected_category_label)))

\* plan.get("insurer", "")
InsurerOf(p) == IF "insurer" \in DOMAIN p THEN p.insurer ELSE ""

available_insurers(filtered_plans) ==
    {InsurerOf(filtered_plans[i]) : i \in DOMAIN filtered_plans}

FilterByInsurer(filtered_plans, selected_insurers) ==
    IF selected_insurers = {} THEN filtered_plans
    ELSE SelectSeq(filtered_plans, LAMBDA p : InsurerOf(p) \in selected_insurers)

target_status(claim_status_option) ==
    IF claim_status_option = s_opt_not_claimed THEN s_not_claimed ELSE s_claimed

FilterByClaimStatus(filtered_plans, claim_status_option) ==
    IF claim_status_option = s_both THEN filtered_plans
    ELSE SelectSeq(filtered_plans,
             LAMBDA p : normalize_claim_status(Get(p, "claim_status", JNull))
                            = target_status(claim_status_option))

\* p.get("premium_value", 0), scaled
PremiumOf(p) == NumberValue(Get(p, "premium_value", JNum(0)))

\* int(x) of a scaled amount: truncation toward zero, in whole rupees
PyInt(v) == IF v >= 0 THEN v \div Scale ELSE -((-v) \div Scale)

\* the pair a range slider returns
PriceRange(lo, hi) == [t |-> "tuple", lo |-> lo, hi |-> hi]

\* the bounds of the slider, its initial value: int(min(premiums)), int(max(premiums))
SliderBounds(filtered_plans) ==
    LET premiums == {PremiumOf(filtered_plans[i]) : i \in DOMAIN filtered_plans}
    IN  PriceRange(PyInt(SetMin(premiums)), PyInt(SetMax(premiums)))

\* the pairs the slider can return
SliderValues(filtered_plans) ==
    {PriceRange(q[1], q[2]) :
        q \in {r \in (SliderBounds(filtered_plans).lo..SliderBounds(filtered_plans).hi)
                      \X (SliderBounds(filtered_plans).lo..SliderBounds(filtered_plans).hi) :
                  r[1] <= r[2]}}

\* the variant that tests the lower end of the range only
InPriceRange_lower_only(p, price_range) == price_range.lo * Scale <= PremiumOf(p)

\* price_range[0] <= p.get("premium_value", 0) <= price_range[1]
InPriceRange(p, price_range) ==
    price_range.lo * Scale <= PremiumOf(p) /\ PremiumOf(p) <= price_range.hi * Scale

\* the plans the slider is built from
BeforeSlider(all_plans, sidebar) ==
    FilterByClaimStatus(
        FilterByInsurer(FilterByType(all_plans, sidebar.plan_type), sidebar.insurers),
        sidebar.claim_status)

apply_sidebar_filters(all_plans, sidebar) ==
    IF all_plans = <<>> THEN [plans |-> <<>>, price_range |-> JNull]
    ELSE IF BeforeSlider(all_plans, sidebar) = <<>>
         THEN [plans |-> <<>>, price_range |-> JNull]
         ELSE [plans |-> SelectSeq(BeforeSlider(all_plans, sidebar),
                             LAMBDA p : InPriceRange(p, sidebar.price_range)),
               price_range |-> sidebar.price_range]

(***************************************************************************)
(* Inputs: up to MaxShown plans, and for each list every setting the       *)
(* widgets built from it can return.                                       *)
(***************************************************************************)
ShownPlans ==
    { [category |-> JStr(s_comp), insurer |-> "Acko",
       claim_status |-> JStr(s_claimed), premium_value |-> Float(1 * Scale)],
      [category |-> JStr(s_comp), insurer |-> "ICICI",
       claim_status |-> JStr(<<"N","o","t"," ","C","l","a","i","m","e","d">>), premium_value |-> Float(2 * Scale + Scale \div 2)],
      [category |-> JStr(s_od), insurer |-> "Acko",
       claim_status |-> JStr(<<>>), premium_value |-> Float(3 * Scale)],
      [category |-> JStr(<<"o","w","n","_","d","a","m","a","g","e">>), insurer |-> "ICICI",
       claim_status |-> JStr(s_not_claimed), premium_value |-> Float(1 * Scale)],
      [category |-> JStr(<<>>), insurer |-> "Go Digit",
       claim_status |-> JNull, premium_value |-> Absent] }

\* the settings the widgets offer for the plans
SidebarSettings(all_plans) ==
    IF all_plans = <<>>
    THEN {[plan_type |-> s_all_plan_types, insurers |-> {}, claim_status |-> s_both,
           price_range |-> JNull]}
    ELSE UNION { UNION { UNION {
             LET shown == FilterByClaimStatus(
                              FilterByInsurer(FilterByType(all_plans, plan_type), insurers),
                              claim_status)
             IN  IF shown = <<>>
                 THEN {[plan_type |-> plan_type, insurers |-> insurers,
                        claim_status |-> claim_status, price_range |-> JNull]}
                 ELSE {[plan_type |-> plan_type, insurers |-> insurers,
                        claim_status |-> claim_status, price_range |-> r] :
                          r \in SliderValues(shown)}
             : claim_status \in {s_both, s_opt_not_claimed, s_opt_claimed} }
             : insurers \in SUBSET available_insurers(FilterByType(all_plans, plan_type)) }
             : plan_type \in {category_options(all_plans)[i] :
                                 i \in DOMAIN category_options(all_plans)} }

\* the settings when no control is touched
DefaultSettings(all_plans) ==
    [plan_type |-> s_all_plan_types,
     insurers |-> available_insurers(all_plans),
     claim_status |-> s_both,
     price_range |-> IF all_plans = <<>> THEN JNull ELSE SliderBounds(all_plans)]

FilterCalls ==
    UNION { {[fn |-> "apply_sidebar_filters", all_plans |-> all_plans, sidebar |-> sb] :
                sb \in SidebarSettings(all_plans)} :
            all_plans \in SeqsUpTo(ShownPlans, MaxShown) }

InitFilters ==
    /\ call \in FilterCalls
    /\ ret = NoRet
    /\ MergeIdle
    /\ proc = NoProc

CallApplySidebarFilters ==
    /\ call.fn = "apply_sidebar_filters"
    /\ ret = NoRet
    /\ ret' = Ret(apply_sidebar_filters(call.all_plans, call.sidebar))
    /\ UNCHANGED <<call, mergeVars, proc>>

NextFilters == CallApplySidebarFilters

SpecFilters == InitFilters /\ [][NextFilters]_vars

(***************************************************************************)
(* Claims about apply_sidebar_filters (SpecFilters).                       *)
(***************************************************************************)
FiltersDone == call.fn = "apply_sidebar_filters" /\ ret.done

\* C27: with every sidebar control at its default apply_sidebar_filters
\* returns every plan it was given, the plan with the highest premium
\* included when that premium is not a whole number.
C27_DefaultsKeepEveryPlan ==
    (FiltersDone /\ call.sidebar = DefaultSettings(call.all_plans)) =>
        ret.v.plans = call.all_plans

\* sub is a subsequence of whole, in order
RECURSIVE IsSubsequence(_, _)
IsSubsequence(sub, whole) ==
    IF sub = <<>> THEN TRUE
    ELSE IF whole = <<>> THEN FALSE
    ELSE IF Head(sub) = Head(whole) THEN IsSubsequence(Tail(sub), Tail(whole))
    ELSE IsSubsequence(sub, Tail(whole))

\* C28: for every choice of sidebar settings the returned list is a
\* subsequence of the input in its original order, and every returned plan
\* has the chosen category (when one is chosen), an insurer among the selected
\* ones (when at least one is selected), a claim status that normalizes to the
\* chosen status (when not "Both") and a premium_value within the chosen price
\* range; an empty input returns an empty list with price_range None.
C28_ReturnedPlansMatchSettings ==
    FiltersDone =>
        /\ IsSubsequence(ret.v.plans, call.all_plans)
        /\ \A i \in DOMAIN ret.v.plans :
               LET p == ret.v.plans[i]
               IN  /\ call.sidebar.plan_type # s_all_plan_types =>
                          /\ p.category.t = "str"
                          /\ get_plan_category_label(p.category.s, <<>>) = call.sidebar.plan_type
                          /\ p.category.s = selected_category(call.all_plans, call.sidebar.plan_type)
                   /\ call.sidebar.insurers # {} => p.insurer \in call.sidebar.insurers
                   /\ call.sidebar.claim_status = s_opt_claimed =>
                          normalize_claim_status(p.claim_status) = s_claimed
                   /\ call.sidebar.claim_status = s_opt_not_claimed =>
                          normalize_claim_status(p.claim_status) = s_not_claimed
                   /\ ret.v.price_range # JNull
                   /\ ret.v.price_range = call.sidebar.price_range
                   /\ ret.v.price_range.lo * Scale <= PremiumOf(p)
                   /\ PremiumOf(p) <= ret.v.price_range.hi * Scale
        /\ call.all_plans = <<>> => ret.v = [plans |-> <<>>, price_range |-> JNull]

\* a plan type, an insurer, a claim status and a narrowed price range are
\* chosen, and a plan is returned while another is filtered out
C28_Witness ==
    /\ FiltersDone
    /\ Len(call.all_plans) = 2
    /\ Len(ret.v.plans) = 1
    /\ call.sidebar.plan_type # s_all_plan_types
    /\ call.sidebar.insurers # {}
    /\ call.sidebar.claim_status # s_both
    /\ call.sidebar.price_range # SliderBounds(call.all_plans)


(***************************************************************************)
(* error_handler.retry_with_backoff: one invocation of the wrapper.  Each  *)
(* step is one pass of the loop: the wrapped function is called and        *)
(* returns or raises, as its environment decides, and the handler runs.    *)
(* proc.log records the calls and the sleeps in order; delays are whole    *)
(* seconds.                                                                *)
(***************************************************************************)
MaxRetries == 2

\* the exception classes a call can raise, with their base classes
ExceptionBases ==
    [PlaywrightTimeout |-> {"PlaywrightTimeout", "PlaywrightError", "Exception", "BaseException"},
     PlaywrightError |-> {"PlaywrightError", "Exception", "BaseException"},
     ValueError |-> {"ValueError", "Exception", "BaseException"},
     KeyboardInterrupt |-> {"KeyboardInterrupt", "BaseException"}]

\* `except exceptions as e` catches e
IsListed(type, exceptions) == ExceptionBases[type] \cap exceptions # {}

CallEvent(n, what) == [ev |-> "call", n |-> n, what |-> what, delay |-> 0]
SleepEvent(delay) == [ev |-> "sleep", n |-> 0, what |-> "", delay |-> delay]

\* the calls of the wrapped function made so far
Calls(log) == SelectSeq(log, LAMBDA e : e.ev = "call")
Sleeps(log) == SelectSeq(log, LAMBDA e : e.ev = "sleep")

\* the variant that retries once more than max_retries allows
RetryAllowed_one_more(attempt, max_retries) == attempt <= max_retries

\* if attempt < max_retries
RetryAllowed(attempt, max_retries) == attempt < max_retries

RetryCalls ==
    [at : {"retry_loop"},
     max_retries : -1..MaxRetries,
     initial_delay : {1, 2},
     backoff_factor : {1, 2, 3},
     exceptions : {{"Exception"}, {"PlaywrightTimeout", "PlaywrightError"}},
     attempt : {0},
     last_exception : {"None"},
     log : {<<>>},
     outcome : {"None"}]

InitRetry ==
    /\ proc \in {[at |-> c.at, max_retries |-> c.max_retries,
                   initial_delay |-> c.initial_delay, backoff_factor |-> c.backoff_factor,
                   exceptions |-> c.exceptions, attempt |-> c.attempt,
                   delay |-> c.initial_delay, last_exception |-> c.last_exception,
                   log |-> c.log, outcome |-> c.outcome] : c \in RetryCalls}
    /\ call = NoCall
    /\ ret = NoRet
    /\ MergeIdle

\* return func(*args, **kwargs)
FuncReturns ==
    /\ proc.at = "retry_loop"
    /\ proc.attempt <= proc.max_retries
    /\ proc' = [proc EXCEPT
                   !.log = Append(@, CallEvent(Len(Calls(@)) + 1, "returned")),
                   !.at = "retry_returned",
                   !.outcome = "result"]
    /\ UNCHANGED <<call, ret, mergeVars>>

\* func raises an exception of a listed type: the except clause
FuncRaisesListed ==
    \E type \in DOMAIN ExceptionBases :
        /\ proc.at = "retry_loop"
        /\ proc.attempt <= proc.max_retries
        /\ IsListed(type, proc.exceptions)
        /\ proc' =
               IF RetryAllowed(proc.attempt, proc.max_retries)
               THEN [proc EXCEPT
                        !.last_exception = type,
                        !.log = @ \o <<CallEvent(Len(Calls(@)) + 1, type), SleepEvent(proc.delay)>>,
                        !.delay = @ * proc.backoff_factor,
                        !.attempt = @ + 1]
               ELSE [proc EXCEPT
                        !.last_exception = type,
                        !.log = Append(@, CallEvent(Len(Calls(@)) + 1, type)),
                        !.at = "retry_raised",
                        !.outcome = type]
        /\ UNCHANGED <<call, ret, mergeVars>>

\* func raises an exception the except clause does not catch
FuncRaisesUnlisted ==
    \E type \in DOMAIN ExceptionBases :
        /\ proc.at = "retry_loop"
        /\ proc.attempt <= proc.max_retries
        /\ ~IsListed(type, proc.exceptions)
        /\ proc' = [proc EXCEPT
                       !.log = Append(@, CallEvent(Len(Calls(@)) + 1, type)),
                       !.at = "retry_raised",
                       !.outcome = type]
        /\ UNCHANGED <<call, ret, mergeVars>>

\* the loop is over: `if last_exception: raise last_exception`, else the
\* wrapper falls off its end and returns None
LoopOver ==
    /\ proc.at = "retry_loop"
    /\ proc.attempt > proc.max_retries
    /\ proc' = IF proc.last_exception # "None"
               THEN [proc EXCEPT !.at = "retry_raised", !.outcome = proc.last_exception]
               ELSE [proc EXCEPT !.at = "retry_returned", !.outcome = "None"]
    /\ UNCHANGED <<call, ret, mergeVars>>

NextRetry == FuncReturns \/ FuncRaisesListed \/ FuncRaisesUnlisted \/ LoopOver

SpecRetry == InitRetry /\ [][NextRetry]_vars

(***************************************************************************)
(* Claims about retry_with_backoff (SpecRetry).                            *)
(***************************************************************************)
InRetry == proc.at \in {"retry_loop", "retry_returned", "retry_raised"}

\* C29: a function wrapped by retry_with_backoff(max_retries=n) is called at
\* most n+1 times per invocation; the wrapper returns the result of the first
\* call that succeeds and makes no further call; it re-raises the last
\* exception only after n+1 calls have failed with a listed type; an exception
\* of a type not listed propagates at once without a retry; it sleeps only
\* between attempts, each delay being the previous one times backoff_factor,
\* starting from initial_delay.
C29_AtMostNPlusOneCallsWithBackoff ==
    InRetry =>
        LET calls == Calls(proc.log)
            sleeps == Sleeps(proc.log)
            log == proc.log
        IN  /\ Len(calls) <= proc.max_retries + 1
            /\ \A i \in DOMAIN calls : calls[i].n = i
            \* a result comes from the last call made, the only one that succeeded
            /\ (proc.at = "retry_returned" /\ proc.max_retries >= 0) =>
                   /\ proc.outcome = "result"
                   /\ log # <<>> /\ log[Len(log)] = CallEvent(Len(calls), "returned")
            /\ \A i \in DOMAIN log :
                   (log[i].ev = "call" /\ log[i].what = "returned") =>
                       i = Len(log) /\ proc.at = "retry_returned"
            \* a listed exception leaves only after n+1 failed calls, and is the last one
            /\ (proc.at = "retry_raised" /\ IsListed(proc.outcome, proc.exceptions)) =>
                   /\ Len(calls) = proc.max_retries + 1
                   /\ \A i \in DOMAIN calls : IsListed(calls[i].what, proc.exceptions)
                   /\ log[Len(log)] = CallEvent(Len(calls), proc.outcome)
            \* an exception that is not listed ends the invocation at once
            /\ \A i \in DOMAIN log :
                   (log[i].ev = "call" /\ log[i].what # "returned"
                        /\ ~IsListed(log[i].what, proc.exceptions)) =>
                       i = Len(log) /\ proc.at = "retry_raised" /\ proc.outcome = log[i].what
            \* a sleep follows a failed call and is followed by the next call
            /\ \A i \in DOMAIN log :
                   log[i].ev = "sleep" =>
                       /\ i > 1 /\ log[i - 1].ev = "call" /\ log[i - 1].what # "returned"
                       /\ IF i < Len(log) THEN log[i + 1].ev = "call"
                          ELSE proc.at = "retry_loop" /\ proc.attempt <= proc.max_retries
            /\ \A k \in DOMAIN sleeps :
                   sleeps[k].delay = IF k = 1 THEN proc.initial_delay
                                     ELSE sleeps[k - 1].delay * proc.backoff_factor

\* every one of the n+1 attempts failed with a listed exception and the last
\* one was re-raised, after n sleeps of growing length
C29_Witness ==
    /\ proc.at = "retry_raised"
    /\ proc.max_retries = MaxRetries
    /\ Len(Calls(proc.log)) = MaxRetries + 1
    /\ IsListed(proc.outcome, proc.exceptions)
    /\ Len(Sleeps(proc.log)) = MaxRetries
    /\ proc.backoff_factor = 2
    /\ Sleeps(proc.log)[2].delay = 2 * Sleeps(proc.log)[1].delay


(***************************************************************************)
(* main.ScraperApp.run.  proc.at is the statement run has reached; each    *)
(* step is one action, whose outcome (the step returns a true or a false   *)
(* value, or raises) its environment decides; the except clause that       *)
(* catches a raise is part of the action.  The shutdown flag is set by the *)
(* signal handler at any moment and is never cleared.  Exit codes and      *)
(* returned values are held as their decimal text; proc.logged is the      *)
(* sequence of error types run has passed to error_handler.log_error, and  *)
(* proc.saved tells what save_to_json has written: "none", "full" or       *)
(* "partial".                                                              *)
(***************************************************************************)
InitSteps == <<"init_error_handler", "init_data_handler", "init_scraper">>

RunSteps == <<"setup_browser", "navigate_to_home", "generate_phone_number", "fill_form",
              "scrape_plan_details", "save_to_json", "load_and_convert", "display_summary">>

StepOutcomes == {"true", "false", "Exception", "KeyboardInterrupt"}

\* control leaves the try statement by the variant that skips the finally clause
LeaveTry_without_finally(p, returning, exit_code) ==
    [p EXCEPT !.at = "run_returned",
              !.value = IF returning # "none" THEN returning ELSE exit_code]

\* control leaves the main block, by a return, by the end of the block or by
\* an except clause: the finally clause runs next
LeaveTry(p, returning, exit_code) ==
    [p EXCEPT !.at = "finally", !.returning = returning, !.exit_code = exit_code]

\* the except clauses of the main block; save_raises tells whether the
\* attempt to save partial data raises in its turn
Handled(p, exception, save_raises) ==
    IF exception = "KeyboardInterrupt"
    THEN LeaveTry([p EXCEPT !.logged = Append(@, "KEYBOARD_INTERRUPT")], "none", "130")
    ELSE LeaveTry([p EXCEPT !.logged =
                       Append(@, "UNEXPECTED_ERROR")
                       \o (IF p.scraped_data /\ save_raises THEN <<"PARTIAL_SAVE_ERROR">>
                           ELSE <<>>),
                            !.saved = IF p.scraped_data /\ ~save_raises THEN "partial" ELSE @],
                  "none", "1")

\* the statement after a step of the main block that went well
NextStep(step) ==
    IF step = RunSteps[Len(RunSteps)] THEN "finally"
    ELSE RunSteps[(CHOOSE i \in DOMAIN RunSteps : RunSteps[i] = step) + 1]

InitRun ==
    /\ proc = [at |-> InitSteps[1], scraper |-> FALSE, shutdown |-> FALSE,
               scraped_data |-> FALSE, is_partial |-> FALSE, saved |-> "none",
               exit_code |-> "0", returning |-> "none",
               closes |-> 0, logged |-> <<>>, value |-> "none"]
    /\ call = NoCall
    /\ ret = NoRet
    /\ MergeIdle

\* the signal handler sets the shutdown flag
RequestShutdown ==
    /\ proc.at \in {"finally"} \cup {RunSteps[i] : i \in DOMAIN RunSteps}
    /\ ~proc.shutdown
    /\ proc' = [proc EXCEPT !.shutdown = TRUE]
    /\ UNCHANGED <<call, ret, mergeVars>>

\* the three initialisations before the main block: one that fails returns 1
\* (the last two after logging INIT_ERROR); the third creates the scraper
RunInitialize ==
    \E fails \in BOOLEAN :
        /\ proc.at \in {InitSteps[i] : i \in DOMAIN InitSteps}
        /\ proc' =
               IF fails
               THEN [proc EXCEPT !.at = "run_returned", !.value = "1",
                                 !.logged = IF proc.at = InitSteps[1] THEN @
                                            ELSE Append(@, "INIT_ERROR")]
               ELSE IF proc.at = InitSteps[3]
                    THEN [proc EXCEPT !.at = RunSteps[1], !.scraper = TRUE]
                    ELSE [proc EXCEPT !.at =
                             InitSteps[(CHOOSE i \in DOMAIN InitSteps : InitSteps[i] = proc.at) + 1]]
        /\ UNCHANGED <<call, ret, mergeVars>>

\* steps 1, 2 and 4: return 0 on shutdown, return 1 when the step fails
RunCheckedStep ==
    \E outcome \in StepOutcomes :
        /\ proc.at \in {"setup_browser", "navigate_to_home", "fill_form"}
        /\ proc' = IF proc.shutdown THEN LeaveTry(proc, "0", proc.exit_code)
                   ELSE IF outcome = "true" THEN [proc EXCEPT !.at = NextStep(proc.at)]
                   ELSE IF outcome = "false" THEN LeaveTry(proc, "1", proc.exit_code)
                   ELSE Handled(proc, outcome, FALSE)
        /\ UNCHANGED <<call, ret, mergeVars>>

\* step 3: the phone number is generated, no result is tested
RunGeneratePhoneNumber ==
    \E outcome \in StepOutcomes \ {"false"} :
        /\ proc.at = "generate_phone_number"
        /\ proc' = IF proc.shutdown THEN LeaveTry(proc, "0", proc.exit_code)
                   ELSE IF outcome = "true" THEN [proc EXCEPT !.at = NextStep(proc.at)]
                   ELSE Handled(proc, outcome, FALSE)
        /\ UNCHANGED <<call, ret, mergeVars>>

\* step 5: on shutdown whatever is scraped is saved and run returns 0;
\* otherwise no data returns 1
RunScrapePlanDetails ==
    \E outcome \in StepOutcomes, save_raises \in BOOLEAN, scraping_errors \in BOOLEAN :
        /\ proc.at = "scrape_plan_details"
        /\ proc' =
               IF outcome \in {"Exception", "KeyboardInterrupt"}
               THEN Handled(proc, outcome, FALSE)
               ELSE IF proc.shutdown
                    THEN (IF outcome = "true" /\ save_raises
                          THEN Handled([proc EXCEPT !.scraped_data = TRUE], "Exception", save_raises)
                          ELSE LeaveTry([proc EXCEPT !.scraped_data = (outcome = "true"),
                                                     !.saved = IF outcome = "true" THEN "partial"
                                                               ELSE @],
                                        "0", proc.exit_code))
                    ELSE IF outcome = "true"
                         THEN [proc EXCEPT !.at = NextStep(proc.at), !.scraped_data = TRUE,
                                           !.is_partial = scraping_errors]
                         ELSE LeaveTry(proc, "1", proc.exit_code)
        /\ UNCHANGED <<call, ret, mergeVars>>

\* step 6: a save that fails is logged and run goes on
RunSaveToJson ==
    \E outcome \in StepOutcomes, save_raises \in BOOLEAN :
        /\ proc.at = "save_to_json"
        /\ proc' = IF outcome = "true"
                   THEN [proc EXCEPT !.at = NextStep(proc.at),
                                     !.saved = IF proc.is_partial THEN "partial" ELSE "full"]
                   ELSE IF outcome = "false"
                        THEN [proc EXCEPT !.at = NextStep(proc.at),
                                          !.logged = Append(@, "SAVE_ERROR")]
                        ELSE Handled(proc, outcome, save_raises)
        /\ UNCHANGED <<call, ret, mergeVars>>

\* steps 7 and 8: skipped on shutdown; a None result is only reported
RunConvertOrSummarize ==
    \E outcome \in StepOutcomes, save_raises \in BOOLEAN :
        /\ proc.at \in {"load_and_convert", "display_summary"}
        /\ proc' = IF proc.shutdown \/ outcome \in {"true", "false"}
                   THEN (IF NextStep(proc.at) = "finally"
                         THEN LeaveTry(proc, "none", proc.exit_code)
                         ELSE [proc EXCEPT !.at = NextStep(proc.at)])
                   ELSE Handled(proc, outcome, save_raises)
        /\ UNCHANGED <<call, ret, mergeVars>>

\* the finally clause: scraper.close() returns or raises an error, which is
\* logged; then run returns the pending value, or exit_code
RunCleanup ==
    \E close_raises \in BOOLEAN :
        /\ proc.at = "finally"
        /\ proc' = [proc EXCEPT
                       !.closes = IF proc.scraper THEN @ + 1 ELSE @,
                       !.logged = IF proc.scraper /\ close_raises
                                  THEN Append(@, "CLEANUP_ERROR") ELSE @,
                       !.at = "run_returned",
                       !.value = IF proc.returning # "none" THEN proc.returning
                                 ELSE proc.exit_code]
        /\ UNCHANGED <<call, ret, mergeVars>>

NextRun ==
    \/ RequestShutdown
    \/ RunInitialize
    \/ RunCheckedStep
    \/ RunGeneratePhoneNumber
    \/ RunScrapePlanDetails
    \/ RunSaveToJson
    \/ RunConvertOrSummarize
    \/ RunCleanup

SpecRun == InitRun /\ [][NextRun]_vars

(***************************************************************************)
(* Claims about ScraperApp.run (SpecRun).                                  *)
(***************************************************************************)
InRun == proc.at \in {"finally", "run_returned"}
                         \cup {InitSteps[i] : i \in DOMAIN InitSteps}
                         \cup {RunSteps[i] : i \in DOMAIN RunSteps}

CleanupErrors == SelectSeq(proc.logged, LAMBDA e : e = "CLEANUP_ERROR")

\* C30: once the scraper object has been created, scraper.close() is called
\* exactly once before run returns, on every path: normal completion, every
\* early return of the main block, KeyboardInterrupt and any other exception;
\* an error raised by close() is logged and run still returns.
C30_CloseCalledOnceBeforeReturn ==
    InRun =>
        /\ proc.closes <= 1
        /\ proc.closes = 1 => proc.at = "run_returned"
        /\ (proc.at = "run_returned" /\ proc.scraper) =>
               /\ proc.closes = 1
               /\ proc.value \in {"0", "1", "130"}
        /\ (proc.at = "run_returned" /\ ~proc.scraper) => proc.closes = 0 /\ proc.value = "1"
        /\ Len(CleanupErrors) <= proc.closes

\* a shutdown requested before a step: run returns 0 early, after a close()
\* that raised and was logged
C30_Witness ==
    /\ proc.at = "run_returned"
    /\ proc.scraper
    /\ proc.shutdown
    /\ proc.returning = "0"
    /\ proc.closes = 1
    /\ Len(CleanupErrors) = 1
    /\ proc.value = "0"

=========================================================================
